---- MODULE Spec2Model ----
(***************************************************************************)
(* twig: worktree resolution and lifecycle protocol, orphan detection and  *)
(* pruning.  Strings are sequences of one-character strings, so that path  *)
(* resolution, prefix stripping, substring tests and name validation are   *)
(* computed the way the TypeScript code computes them.                     *)
(***************************************************************************)
EXTENDS Integers, Sequences, FiniteSets, TLC

(***************************************************************************)
(* String helpers (String.prototype.startsWith / endsWith / includes /     *)
(* trim / slice).                                                          *)
(***************************************************************************)
StartsWith(s, p) == Len(s) >= Len(p) /\ SubSeq(s, 1, Len(p)) = p

EndsWith(s, p) == Len(s) >= Len(p) /\ SubSeq(s, Len(s) - Len(p) + 1, Len(s)) = p

Includes(s, p) == \E i \in 0..(Len(s) - Len(p)) : SubSeq(s, i + 1, i + Len(p)) = p

Slice(s, n) == SubSeq(s, n + 1, Len(s))

\* the characters matched by \s and stripped by trim
Whitespace == {" ", "\t", "\n"}

RECURSIVE TrimLeft(_)
TrimLeft(s) == IF s # <<>> /\ Head(s) \in Whitespace THEN TrimLeft(Tail(s)) ELSE s

RECURSIVE TrimRight(_)
TrimRight(s) ==
    IF s # <<>> /\ s[Len(s)] \in Whitespace THEN TrimRight(SubSeq(s, 1, Len(s) - 1)) ELSE s

Trim(s) == TrimRight(TrimLeft(s))

\* The absent value (null / undefined); a tuple, so that it compares with strings.
Null == <<"<null>">>

(***************************************************************************)
(* node:path (posix): resolve, dirname, basename.                          *)
(***************************************************************************)
\* the non-empty segments between "/" separators
RECURSIVE SplitAcc(_, _, _)
SplitAcc(s, cur, acc) ==
    IF s = <<>> THEN (IF cur = <<>> THEN acc ELSE Append(acc, cur))
    ELSE IF Head(s) = "/"
         THEN SplitAcc(Tail(s), <<>>, IF cur = <<>> THEN acc ELSE Append(acc, cur))
         ELSE SplitAcc(Tail(s), Append(cur, Head(s)), acc)

SplitSlash(s) == SplitAcc(s, <<>>, <<>>)

\* "." is dropped, ".." removes the segment before it (the root has no parent)
RECURSIVE NormalizeSegs(_, _)
NormalizeSegs(segs, acc) ==
    IF segs = <<>> THEN acc
    ELSE IF Head(segs) = <<".">> THEN NormalizeSegs(Tail(segs), acc)
    ELSE IF Head(segs) = <<".", ".">>
         THEN NormalizeSegs(Tail(segs),
                            IF acc = <<>> THEN acc ELSE SubSeq(acc, 1, Len(acc) - 1))
         ELSE NormalizeSegs(Tail(segs), Append(acc, Head(segs)))

RECURSIVE JoinSegs(_)
JoinSegs(segs) ==
    IF segs = <<>> THEN <<>> ELSE <<"/">> \o Head(segs) \o JoinSegs(Tail(segs))

JoinAbs(segs) == IF segs = <<>> THEN <<"/">> ELSE JoinSegs(segs)

\* path.resolve(from, to) for an absolute `from`
PathResolve2(from, to) ==
    IF to # <<>> /\ Head(to) = "/"
    THEN JoinAbs(NormalizeSegs(SplitSlash(to), <<>>))
    ELSE JoinAbs(NormalizeSegs(SplitSlash(from) \o SplitSlash(to), <<>>))

PathDirname(p) ==
    LET segs == SplitSlash(p)
    IN  IF segs = <<>> THEN <<"/">> ELSE JoinAbs(SubSeq(segs, 1, Len(segs) - 1))

PathBasename(p) ==
    LET segs == SplitSlash(p) IN IF segs = <<>> THEN <<>> ELSE segs[Len(segs)]

(***************************************************************************)
(* String constants of the program.                                        *)
(***************************************************************************)
Main == <<"m", "a", "i", "n">>
Master == <<"m", "a", "s", "t", "e", "r">>
Origin == <<"o", "r", "i", "g", "i", "n">>
RefsHeads == <<"r", "e", "f", "s", "/", "h", "e", "a", "d", "s", "/">>
RefsRemotesOrigin == <<"r", "e", "f", "s", "/", "r", "e", "m", "o", "t", "e", "s", "/", "o", "r", "i", "g", "i", "n", "/">>
OriginSlash == <<"o", "r", "i", "g", "i", "n", "/">>
WorktreeSp == <<"w", "o", "r", "k", "t", "r", "e", "e", " ">>
BranchSp == <<"b", "r", "a", "n", "c", "h", " ">>
HeadSp == <<"H", "E", "A", "D", " ">>
Detached == <<"d", "e", "t", "a", "c", "h", "e", "d">>
DotGit == <<".", "g", "i", "t">>
DotLock == <<".", "l", "o", "c", "k">>

(***************************************************************************)
(* validateBranchName: "ok" or the rule that rejects the name.             *)
(***************************************************************************)
\* the class [\s~^:?*[\]]
ForbiddenChars == Whitespace \cup {"~", "^", ":", "?", "*", "[", "]"}

\* variant: the .lock rule is missing
validateBranchNameNoLockRule(name) ==
    IF name = <<>> \/ Trim(name) = <<>> THEN "empty"
    ELSE IF StartsWith(name, <<".">>) THEN "starts-with-dot"
    ELSE IF Includes(name, <<".", ".">>) \/ Includes(name, <<"@", "{">>)
            \/ Includes(name, <<"\\">>) THEN "dotdot-at-backslash"
    ELSE IF \E i \in 1..Len(name) : name[i] \in ForbiddenChars THEN "forbidden-char"
    ELSE IF EndsWith(name, <<"/">>) THEN "ends-with-slash"
    ELSE IF StartsWith(name, <<"/">>) \/ Includes(name, <<"/", "/">>) THEN "slashes"
    ELSE "ok"

validateBranchName(name) ==
    IF name = <<>> \/ Trim(name) = <<>> THEN "empty"
    ELSE IF StartsWith(name, <<".">>) THEN "starts-with-dot"
    ELSE IF Includes(name, <<".", ".">>) \/ Includes(name, <<"@", "{">>)
            \/ Includes(name, <<"\\">>) THEN "dotdot-at-backslash"
    ELSE IF \E i \in 1..Len(name) : name[i] \in ForbiddenChars THEN "forbidden-char"
    ELSE IF EndsWith(name, <<"/">>) THEN "ends-with-slash"
    ELSE IF EndsWith(name, DotLock) THEN "ends-with-lock"
    ELSE IF StartsWith(name, <<"/">>) \/ Includes(name, <<"/", "/">>) THEN "slashes"
    ELSE "ok"

(***************************************************************************)
(* The repository and the filesystem, as one record g:                     *)
(*   refs     : full ref name -> commit id (local and remote-tracking)     *)
(*   wts      : the worktrees git has registered, main worktree first      *)
(*   fs       : the absolute paths that exist                              *)
(*   remotes  : the configured remote names                                *)
(*   upstream : branch name -> commit id on the server behind `origin`     *)
(*   files    : path -> content and mode of the files whose content matters *)
(* Commands run from the top level of the main worktree.                   *)
(***************************************************************************)
Root == <<"/", "w", "/", "r">>

Cwd == Root

\* path.resolve(p) with one argument resolves against the working directory
PathResolve(p) == PathResolve2(Cwd, p)

\* every ancestor directory of an absolute path, the path itself included
Ancestors(p) ==
    LET segs == SplitSlash(p)
    IN  {JoinAbs(SubSeq(segs, 1, n)) : n \in 0..Len(segs)}

\* fs.stat succeeds (fs-operations fileExists)
fileExists(g, p) == p # <<>> /\ PathResolve(p) \in g.fs

\* git show-ref --verify <ref>: a failing command means "does not exist"
execGitShowRef(g, ref) == ref \in DOMAIN g.refs

branchExists(g, b) == execGitShowRef(g, RefsHeads \o b)

\* git rev-parse --show-toplevel
repoRoot(g) == Root

\* git rev-parse --git-common-dir, run in the main worktree
execGitCommonDir(g) == DotGit

repoName(g) ==
    IF execGitCommonDir(g) = DotGit
    THEN PathBasename(repoRoot(g))
    ELSE PathBasename(PathDirname(execGitCommonDir(g)))

defaultDir(g, b) ==
    PathResolve2(PathDirname(repoRoot(g)), repoName(g) \o <<"-">> \o b)

\* an enumeration of a finite set
RECURSIVE SetToSeq(_)
SetToSeq(S) ==
    IF S = {} THEN <<>> ELSE LET x == CHOOSE y \in S : TRUE IN <<x>> \o SetToSeq(S \ {x})

RECURSIVE JoinLines(_)
JoinLines(ls) ==
    IF ls = <<>> THEN <<>>
    ELSE IF Len(ls) = 1 THEN ls[1]
    ELSE ls[1] \o <<"\n">> \o JoinLines(Tail(ls))

\* stdout of `git remote`: one configured remote name per line
execGitRemote(g) == JoinLines(SetToSeq(g.remotes))

\* stdout of `git worktree list --porcelain`, as its lines
RECURSIVE execGitWorktreeList(_)
execGitWorktreeList(wts) ==
    IF wts = <<>> THEN <<>>
    ELSE LET w == Head(wts)
         IN  << WorktreeSp \o w.path,
                HeadSp \o w.head,
                IF w.branch = Null THEN Detached ELSE BranchSp \o RefsHeads \o w.branch >>
             \o (IF Len(wts) = 1 THEN <<>> ELSE <<(<<>>)>>)
             \o execGitWorktreeList(Tail(wts))

Truthy(s) == s # Null /\ s # <<>>

StripRefsHeads(s) == IF StartsWith(s, RefsHeads) THEN Slice(s, Len(RefsHeads)) ELSE s

\* variant: the refs/heads/ prefix of a branch value is kept
RECURSIVE ParseLinesKeepsPrefix(_, _, _)
ParseLinesKeepsPrefix(lines, cur, items) ==
    IF lines = <<>>
    THEN (IF Truthy(cur.path) THEN Append(items, cur) ELSE items)
    ELSE LET line == Head(lines)
             rest == Tail(lines)
         IN  IF Trim(line) = <<>> THEN ParseLinesKeepsPrefix(rest, cur, items)
             ELSE IF StartsWith(line, WorktreeSp)
                  THEN ParseLinesKeepsPrefix(rest,
                                  [path |-> Trim(Slice(line, Len(WorktreeSp))),
                                   branch |-> Null, head |-> Null],
                                  IF Truthy(cur.path) THEN Append(items, cur) ELSE items)
             ELSE IF StartsWith(line, BranchSp)
                  THEN ParseLinesKeepsPrefix(rest,
                                  [cur EXCEPT !.branch = Trim(Slice(line, Len(BranchSp)))],
                                  items)
             ELSE IF StartsWith(line, HeadSp)
                  THEN ParseLinesKeepsPrefix(rest,
                                  [cur EXCEPT !.head = Trim(Slice(line, Len(HeadSp)))],
                                  items)
             ELSE ParseLinesKeepsPrefix(rest, cur, items)

RECURSIVE ParseLines(_, _, _)
ParseLines(lines, cur, items) ==
    IF lines = <<>>
    THEN (IF Truthy(cur.path) THEN Append(items, cur) ELSE items)
    ELSE LET line == Head(lines)
             rest == Tail(lines)
         IN  IF Trim(line) = <<>> THEN ParseLines(rest, cur, items)
             ELSE IF StartsWith(line, WorktreeSp)
                  THEN ParseLines(rest,
                                  [path |-> Trim(Slice(line, Len(WorktreeSp))),
                                   branch |-> Null, head |-> Null],
                                  IF Truthy(cur.path) THEN Append(items, cur) ELSE items)
             ELSE IF StartsWith(line, BranchSp)
                  THEN ParseLines(rest,
                                  [cur EXCEPT !.branch =
                                      StripRefsHeads(Trim(Slice(line, Len(BranchSp))))],
                                  items)
             ELSE IF StartsWith(line, HeadSp)
                  THEN ParseLines(rest,
                                  [cur EXCEPT !.head = Trim(Slice(line, Len(HeadSp)))],
                                  items)
             ELSE ParseLines(rest, cur, items)

parseWorktreeOutput(lines) ==
    ParseLines(lines, [path |-> Null, branch |-> Null, head |-> Null], <<>>)

parseWorktrees(g) == parseWorktreeOutput(execGitWorktreeList(g.wts))

(***************************************************************************)
(* What git does on the state-changing commands the program issues.        *)
(***************************************************************************)
Ext(f, k, v) == [x \in DOMAIN f \cup {k} |-> IF x = k THEN v ELSE f[x]]

\* git fetch --quiet origin: every branch of the server gets its remote-tracking ref
GitFetch(g) ==
    LET fetched == {RefsRemotesOrigin \o n : n \in DOMAIN g.upstream}
    IN  [g EXCEPT !.refs = [r \in DOMAIN g.refs \cup fetched |->
                               IF r \in fetched
                               THEN g.upstream[Slice(r, Len(RefsRemotesOrigin))]
                               ELSE g.refs[r]]]

\* git rev-parse <name>: the first of refs/<name>, refs/tags/<name>,
\* refs/heads/<name>, refs/remotes/<name> that exists
RevParseCandidates(name) ==
    << <<"r", "e", "f", "s", "/">> \o name, <<"r", "e", "f", "s", "/", "t", "a", "g", "s", "/">> \o name, RefsHeads \o name,
       <<"r", "e", "f", "s", "/", "r", "e", "m", "o", "t", "e", "s", "/">> \o name >>

execGitRevParse(g, name) ==
    LET c == RevParseCandidates(name)
        hits == {i \in 1..Len(c) : c[i] \in DOMAIN g.refs}
    IN  IF hits = {} THEN Null
        ELSE g.refs[c[CHOOSE i \in hits : \A j \in hits : i <= j]]

\* git worktree add <dir> [-b] <branch> [<start>]; ok = FALSE is a failure of
\* the tool for a reason outside the model (permissions, disk, lock)
GitWorktreeAddOk(g, dir, newBranch, b, ok) ==
    /\ ok
    /\ dir # <<>>
    /\ PathResolve(dir) \notin g.fs
    /\ IF newBranch
       THEN ~branchExists(g, b)
       ELSE branchExists(g, b) /\ \A i \in 1..Len(g.wts) : g.wts[i].branch # b

\* a commit that tracks files: f at the top level and n/1 in directory n
Sha3 == <<"3">>

FileF == <<"f">>

FileK == <<"k">>

CacheDir == <<"n">>

CacheFile(i) == CacheDir \o <<"/", (<<"0", "1", "2", "3", "4", "5", "6", "7", "8", "9">>)[i]>>

Tracked == [content |-> <<"t">>, exec |-> FALSE]

\* the files a commit tracks: relative path -> content and mode
Tree(sha) == IF sha = Sha3 THEN (FileF :> Tracked) @@ (CacheFile(1) :> Tracked) ELSE <<>>

\* the checkout of a commit into a directory
Checkout(fl, abs, sha) ==
    LET tree == Tree(sha)
        placed == {PathResolve2(abs, rel) : rel \in DOMAIN tree}
    IN  IF DOMAIN tree = {} THEN fl
        ELSE [p \in DOMAIN fl \cup placed |->
                 IF p \in placed
                 THEN tree[CHOOSE rel \in DOMAIN tree : PathResolve2(abs, rel) = p]
                 ELSE fl[p]]

GitWorktreeAdd(g, dir, newBranch, b, start) ==
    LET abs == PathResolve(dir)
        head == IF newBranch THEN start ELSE g.refs[RefsHeads \o b]
        tree == Tree(head)
    IN  [g EXCEPT !.fs = @ \cup Ancestors(abs)
                        \cup UNION {Ancestors(PathResolve2(abs, rel)) : rel \in DOMAIN tree},
                  !.wts = Append(@, [path |-> abs, branch |-> b, head |-> head]),
                  !.refs = IF newBranch THEN Ext(@, RefsHeads \o b, start) ELSE @,
                  !.files = Checkout(@, abs, head)]

\* a symbolic link and the directory it points to; the link exists when its
\* path is in g.fs
LinkName == <<"/", "w", "/", "l">>

LinkTarget == <<"/", "w", "/", "r", "-", "b", "2">>

\* the path with symbolic links followed, as git compares worktree paths
RealPath(g, p) == IF p = LinkName /\ LinkName \in g.fs THEN LinkTarget ELSE p

\* git worktree remove --force <path>: only a linked worktree can be removed;
\* ok = FALSE is a failure of the tool for a reason outside the model
GitWorktreeRemoveOk(g, path, ok) ==
    ok /\ \E i \in 2..Len(g.wts) : g.wts[i].path = RealPath(g, PathResolve(path))

GitWorktreeRemove(g, path) ==
    LET abs == RealPath(g, PathResolve(path))
    IN  [g EXCEPT !.wts = SelectSeq(@, LAMBDA w : w.path # abs),
                  !.fs = {p \in @ : p # abs /\ ~StartsWith(p, abs \o <<"/">>)}]

(***************************************************************************)
(* The program's operations.  Each yields                                  *)
(*   ret   : the value returned (Null if none)                             *)
(*   err   : "none" or the error it throws                                 *)
(*   calls : the steps it took, in order (external calls, prompts, name    *)
(*           validation)                                                   *)
(*   g     : the repository and filesystem it leaves                       *)
(***************************************************************************)
Call(c, a, b) == [c |-> c, a |-> a, b |-> b, s |-> <<>>]

Result(ret, err, calls, g) == [ret |-> ret, err |-> err, calls |-> calls, g |-> g]

\* variant: the branch lookup runs before the filesystem check
resolveWorktreePathBranchFirst(g, target) ==
    LET items == parseWorktrees(g)
        hits == {i \in 1..Len(items) : items[i].branch = target}
        calls == <<Call("worktree-list", <<>>, <<>>), Call("stat", target, <<>>)>>
    IN  IF hits # {}
        THEN Result(items[CHOOSE i \in hits : \A j \in hits : i <= j].path,
                    "none", calls, g)
        ELSE IF fileExists(g, target) THEN Result(PathResolve(target), "none", calls, g)
        ELSE Result(Null, "none", calls, g)

resolveWorktreePath(g, target) ==
    IF fileExists(g, target)
    THEN Result(PathResolve(target), "none", <<Call("stat", target, <<>>)>>, g)
    ELSE LET items == parseWorktrees(g)
             hits == {i \in 1..Len(items) : items[i].branch = target}
             calls == <<Call("stat", target, <<>>), Call("worktree-list", <<>>, <<>>)>>
         IN  IF hits = {} THEN Result(Null, "none", calls, g)
             ELSE Result(items[CHOOSE i \in hits : \A j \in hits : i <= j].path,
                         "none", calls, g)

RECURSIVE DetectLoop(_, _, _)
DetectLoop(g, candidates, calls) ==
    IF candidates = <<>>
    THEN Result(Null, "no-default-branch", calls, g)
    ELSE LET b == Head(candidates)
             c1 == Append(calls, Call("show-ref", RefsHeads \o b, <<>>))
             c2 == Append(c1, Call("show-ref", RefsRemotesOrigin \o b, <<>>))
         IN  IF execGitShowRef(g, RefsHeads \o b) THEN Result(b, "none", c1, g)
             ELSE IF execGitShowRef(g, RefsRemotesOrigin \o b) THEN Result(b, "none", c2, g)
             ELSE DetectLoop(g, Tail(candidates), c2)

\* variant: master is tried before main
detectDefaultBranchMasterFirst(g) == DetectLoop(g, <<Master, Main>>, <<>>)

detectDefaultBranch(g) == DetectLoop(g, <<Main, Master>>, <<>>)

\* variant: the commit of the local base branch is returned, not origin's
ensureBaseUpToDateLocalHead(g, base, fetchOk) ==
    LET c1 == <<Call("remote", <<>>, <<>>)>>
        c2 == Append(c1, Call("fetch", Origin, <<>>))
        c3 == Append(c2, Call("show-ref", RefsRemotesOrigin \o base, <<>>))
        c4 == Append(c3, Call("rev-parse", base, <<>>))
        g1 == GitFetch(g)
    IN  IF ~Includes(execGitRemote(g), Origin) THEN Result(Null, "no-origin", c1, g)
        ELSE IF ~(fetchOk /\ Origin \in g.remotes) THEN Result(Null, "fetch-failed", c2, g)
        ELSE IF ~execGitShowRef(g1, RefsRemotesOrigin \o base)
             THEN Result(Null, "base-missing", c3, g1)
        ELSE Result(execGitRevParse(g1, base), "none", c4, g1)

\* variant: a failing fetch is tried a second time
ensureBaseUpToDateRetriesFetch(g, base, fetchOk) ==
    LET c1 == <<Call("remote", <<>>, <<>>)>>
        c2 == Append(c1, Call("fetch", Origin, <<>>))
        c3 == Append(c2, Call("show-ref", RefsRemotesOrigin \o base, <<>>))
        c4 == Append(c3, Call("rev-parse", OriginSlash \o base, <<>>))
        g1 == GitFetch(g)
    IN  IF ~Includes(execGitRemote(g), Origin) THEN Result(Null, "no-origin", c1, g)
        ELSE IF ~(fetchOk /\ Origin \in g.remotes)
             THEN Result(Null, "fetch-failed", Append(c2, Call("fetch", Origin, <<>>)), g)
        ELSE IF ~execGitShowRef(g1, RefsRemotesOrigin \o base)
             THEN Result(Null, "base-missing", c3, g1)
        ELSE Result(execGitRevParse(g1, OriginSlash \o base), "none", c4, g1)

\* fetchOk = FALSE is a failing fetch (network, authentication)
ensureBaseUpToDate(g, base, fetchOk) ==
    LET c1 == <<Call("remote", <<>>, <<>>)>>
        c2 == Append(c1, Call("fetch", Origin, <<>>))
        c3 == Append(c2, Call("show-ref", RefsRemotesOrigin \o base, <<>>))
        c4 == Append(c3, Call("rev-parse", OriginSlash \o base, <<>>))
        g1 == GitFetch(g)
    IN  IF ~Includes(execGitRemote(g), Origin) THEN Result(Null, "no-origin", c1, g)
        ELSE IF ~(fetchOk /\ Origin \in g.remotes) THEN Result(Null, "fetch-failed", c2, g)
        ELSE IF ~execGitShowRef(g1, RefsRemotesOrigin \o base)
             THEN Result(Null, "base-missing", c3, g1)
        ELSE Result(execGitRevParse(g1, OriginSlash \o base), "none", c4, g1)

AddCall(dir, newBranch, b, start) ==
    [c |-> IF newBranch THEN "worktree-add -b" ELSE "worktree-add",
     a |-> dir, b |-> b, s |-> start]

\* the calls of defaultDir: repoRoot, then repoName (common dir, repoRoot)
DefaultDirCalls ==
    << Call("show-toplevel", <<>>, <<>>), Call("git-common-dir", <<>>, <<>>),
       Call("show-toplevel", <<>>, <<>>) >>

\* variant: the name is validated after the base has been synchronised
createWorktreeValidatesLate(g, branch, opts, o) ==
    LET det == IF opts.base = Null THEN detectDefaultBranch(g)
               ELSE Result(opts.base, "none", <<>>, g)
        ens == ensureBaseUpToDate(g, det.ret, o.fetchOk)
        g1 == ens.g
        baseRef == ens.ret
        baseDir == repoRoot(g1)
        c0 == Append(det.calls \o ens.calls, Call("validate", branch, <<>>))
        c1 == Append(c0, Call("show-toplevel", <<>>, <<>>))
        dir == IF opts.dir = Null THEN defaultDir(g1, branch) ELSE opts.dir
        c2 == IF opts.dir = Null THEN c1 \o DefaultDirCalls ELSE c1
        c3 == Append(c2, Call("show-ref", RefsHeads \o branch, <<>>))
        c4 == Append(c3, Call("stat", dir, <<>>))
        c5 == Append(c4, AddCall(dir, TRUE, branch, baseRef))
        c6 == Append(c5, Call("copy-untracked", baseDir, dir))
    IN  IF det.err # "none" THEN Result(Null, det.err, det.calls, g)
        ELSE IF ens.err # "none" THEN Result(Null, ens.err, det.calls \o ens.calls, g1)
        ELSE IF validateBranchName(branch) # "ok" THEN Result(Null, "invalid-name", c0, g1)
        ELSE IF execGitShowRef(g1, RefsHeads \o branch)
             THEN Result(Null, "branch-exists", c3, g1)
        ELSE IF fileExists(g1, dir) THEN Result(Null, "dir-exists", c4, g1)
        ELSE IF ~GitWorktreeAddOk(g1, dir, TRUE, branch, o.addOk)
             THEN Result(Null, "add-failed", c5, g1)
        ELSE Result(dir, "none", c6, GitWorktreeAdd(g1, dir, TRUE, branch, baseRef))

\* variant: the directory guard runs before the branch guard
createWorktreeDirGuardFirst(g, branch, opts, o) ==
    LET c0 == <<Call("validate", branch, <<>>)>>
        det == IF opts.base = Null THEN detectDefaultBranch(g)
               ELSE Result(opts.base, "none", <<>>, g)
        ens == ensureBaseUpToDate(g, det.ret, o.fetchOk)
        g1 == ens.g
        baseRef == ens.ret
        baseDir == repoRoot(g1)
        c1 == Append(c0 \o det.calls \o ens.calls, Call("show-toplevel", <<>>, <<>>))
        dir == IF opts.dir = Null THEN defaultDir(g1, branch) ELSE opts.dir
        c2 == IF opts.dir = Null THEN c1 \o DefaultDirCalls ELSE c1
        c3 == Append(c2, Call("stat", dir, <<>>))
        c4 == Append(c3, Call("show-ref", RefsHeads \o branch, <<>>))
        c5 == Append(c4, AddCall(dir, TRUE, branch, baseRef))
        c6 == Append(c5, Call("copy-untracked", baseDir, dir))
    IN  IF validateBranchName(branch) # "ok" THEN Result(Null, "invalid-name", c0, g)
        ELSE IF det.err # "none" THEN Result(Null, det.err, c0 \o det.calls, g)
        ELSE IF ens.err # "none" THEN Result(Null, ens.err, c0 \o det.calls \o ens.calls, g1)
        ELSE IF fileExists(g1, dir) THEN Result(Null, "dir-exists", c3, g1)
        ELSE IF execGitShowRef(g1, RefsHeads \o branch)
             THEN Result(Null, "branch-exists", c4, g1)
        ELSE IF ~GitWorktreeAddOk(g1, dir, TRUE, branch, o.addOk)
             THEN Result(Null, "add-failed", c5, g1)
        ELSE Result(dir, "none", c6, GitWorktreeAdd(g1, dir, TRUE, branch, baseRef))

\* o.fetchOk, o.addOk: whether the fetch and the worktree-add succeed
createWorktree(g, branch, opts, o) ==
    LET c0 == <<Call("validate", branch, <<>>)>>
        det == IF opts.base = Null THEN detectDefaultBranch(g)
               ELSE Result(opts.base, "none", <<>>, g)
        ens == ensureBaseUpToDate(g, det.ret, o.fetchOk)
        g1 == ens.g
        baseRef == ens.ret
        baseDir == repoRoot(g1)
        c1 == Append(c0 \o det.calls \o ens.calls, Call("show-toplevel", <<>>, <<>>))
        dir == IF opts.dir = Null THEN defaultDir(g1, branch) ELSE opts.dir
        c2 == IF opts.dir = Null THEN c1 \o DefaultDirCalls ELSE c1
        c3 == Append(c2, Call("show-ref", RefsHeads \o branch, <<>>))
        c4 == Append(c3, Call("stat", dir, <<>>))
        c5 == Append(c4, AddCall(dir, TRUE, branch, baseRef))
        c6 == Append(c5, Call("copy-untracked", baseDir, dir))
    IN  IF validateBranchName(branch) # "ok" THEN Result(Null, "invalid-name", c0, g)
        ELSE IF det.err # "none" THEN Result(Null, det.err, c0 \o det.calls, g)
        ELSE IF ens.err # "none" THEN Result(Null, ens.err, c0 \o det.calls \o ens.calls, g1)
        ELSE IF execGitShowRef(g1, RefsHeads \o branch)
             THEN Result(Null, "branch-exists", c3, g1)
        ELSE IF fileExists(g1, dir) THEN Result(Null, "dir-exists", c4, g1)
        ELSE IF ~GitWorktreeAddOk(g1, dir, TRUE, branch, o.addOk)
             THEN Result(Null, "add-failed", c5, g1)
        ELSE Result(dir, "none", c6, GitWorktreeAdd(g1, dir, TRUE, branch, baseRef))

createWorktreeForExistingBranch(g, branch, opts, o) ==
    LET c0 == <<Call("validate", branch, <<>>)>>
        baseDir == repoRoot(g)
        c1 == Append(c0, Call("show-toplevel", <<>>, <<>>))
        dir == IF opts.dir = Null THEN defaultDir(g, branch) ELSE opts.dir
        c2 == IF opts.dir = Null THEN c1 \o DefaultDirCalls ELSE c1
        c4 == Append(c2, Call("stat", dir, <<>>))
        c5 == Append(c4, AddCall(dir, FALSE, branch, <<>>))
        c6 == Append(c5, Call("copy-untracked", baseDir, dir))
    IN  IF validateBranchName(branch) # "ok" THEN Result(Null, "invalid-name", c0, g)
        ELSE IF fileExists(g, dir) THEN Result(Null, "dir-exists", c4, g)
        ELSE IF ~GitWorktreeAddOk(g, dir, FALSE, branch, o.addOk)
             THEN Result(Null, "add-failed", c5, g)
        ELSE Result(dir, "none", c6, GitWorktreeAdd(g, dir, FALSE, branch, <<>>))

\* variant: an existing worktree is not looked for
branchNeverResolves(g, target, opts, o) ==
    LET cb == <<Call("show-ref", RefsHeads \o target, <<>>)>>
        made == IF branchExists(g, target)
                THEN createWorktreeForExistingBranch(g, target, opts, o)
                ELSE createWorktree(g, target, opts, o)
    IN  [made EXCEPT !.calls = cb \o @]

\* variant: an existing branch is not reused, a new branch is always created
branchAlwaysNew(g, target, opts, o) ==
    LET existing == resolveWorktreePath(g, target)
        made == createWorktree(g, target, opts, o)
    IN  IF existing.ret # Null THEN existing
        ELSE [made EXCEPT !.calls = existing.calls \o @]

branch(g, target, opts, o) ==
    LET existing == resolveWorktreePath(g, target)
        cb == Append(existing.calls, Call("show-ref", RefsHeads \o target, <<>>))
        made == IF branchExists(g, target)
                THEN createWorktreeForExistingBranch(g, target, opts, o)
                ELSE createWorktree(g, target, opts, o)
    IN  IF existing.ret # Null THEN existing
        ELSE [made EXCEPT !.calls = cb \o @]

\* variant: records without a branch are not skipped
RECURSIVE OrphanLoopNoSkip(_, _, _, _)
OrphanLoopNoSkip(g, worktrees, orphaned, calls) ==
    IF worktrees = <<>> THEN Result(orphaned, "none", calls, g)
    ELSE LET wt == Head(worktrees)
             c1 == Append(calls, Call("show-ref", RefsHeads \o wt.branch, <<>>))
         IN  IF ~branchExists(g, wt.branch)
             THEN OrphanLoopNoSkip(g, Tail(worktrees),
                                   Append(orphaned, [path |-> wt.path, branch |-> wt.branch]),
                                   c1)
             ELSE OrphanLoopNoSkip(g, Tail(worktrees), orphaned, c1)

RECURSIVE OrphanLoop(_, _, _, _)
OrphanLoop(g, worktrees, orphaned, calls) ==
    IF worktrees = <<>> THEN Result(orphaned, "none", calls, g)
    ELSE LET wt == Head(worktrees)
             c1 == Append(calls, Call("show-ref", RefsHeads \o wt.branch, <<>>))
         IN  IF ~Truthy(wt.branch) THEN OrphanLoop(g, Tail(worktrees), orphaned, calls)
             ELSE IF ~branchExists(g, wt.branch)
                  THEN OrphanLoop(g, Tail(worktrees),
                                  Append(orphaned, [path |-> wt.path, branch |-> wt.branch]),
                                  c1)
             ELSE OrphanLoop(g, Tail(worktrees), orphaned, c1)

findOrphanedWorktrees(g) ==
    OrphanLoop(g, parseWorktrees(g), <<>>, <<Call("worktree-list", <<>>, <<>>)>>)

(***************************************************************************)
(* State.                                                                  *)
(*   run  : the prune command in progress (its position and locals)        *)
(*   last : the command that completed last: its input, result, steps and  *)
(*          the repository it started from                                 *)
(***************************************************************************)
VARIABLES refs, worktrees, fs, remotes, upstream, files, run, last

vars == <<refs, worktrees, fs, remotes, upstream, files, run, last>>

G == [refs |-> refs, wts |-> worktrees, fs |-> fs, remotes |-> remotes,
      upstream |-> upstream, files |-> files]

SetG(g) ==
    /\ refs' = g.refs
    /\ worktrees' = g.wts
    /\ fs' = g.fs
    /\ remotes' = g.remotes
    /\ upstream' = g.upstream
    /\ files' = g.files

\* no file with content of interest exists
NoFiles == <<>>

NoOpts == [base |-> Null, dir |-> Null, yes |-> FALSE]

Done(op, target, opts, fault, r, pre) ==
    [op |-> op, target |-> target, opts |-> opts, fault |-> fault, ret |-> r.ret,
     err |-> r.err, calls |-> r.calls, pre |-> pre, post |-> r.g,
     orphaned |-> <<>>, count |-> -1]

NoCommand ==
    [op |-> "none", target |-> <<>>, opts |-> NoOpts, fault |-> "none", ret |-> Null,
     err |-> "none", calls |-> <<>>, pre |-> <<>>, post |-> <<>>,
     orphaned |-> <<>>, count |-> -1]

Idle == [pc |-> "idle", yes |-> FALSE, orphaned |-> <<>>, idx |-> 0, calls |-> <<>>,
         pre |-> <<>>]

(***************************************************************************)
(* Inputs.                                                                 *)
(***************************************************************************)
D == <<"d">>

\* a default branch that is neither main nor master
Trunk == <<"t">>

\* a relative path naming the default worktree directory of branch d
RelD == <<".", ".", "/", "r", "-", "d">>

\* a relative directory for --dir
RelX == <<".", ".", "/", "x">>

\* a directory named d inside the main worktree
SubD == <<"/", "w", "/", "r", "/", "d">>

Origin2 == <<"o", "r", "i", "g", "i", "n", "2">>

Up == <<"u", "p">>

Sha1 == <<"1">>

Sha2 == <<"2">>

\* <parent-of-repo-root>/<repo>-<branch>, spelled out for the model's repository
SiblingDir(b) == <<"/", "w", "/", "r", "-">> \o b

Tokens == {D, RelD}

BaseOpts == {Null, Master}

DirOpts == {Null, RelX}

Faults == {"none", "fetch", "add"}

EnvDirs == {SubD, SiblingDir(D)}

RefMap(S, sha) == [r \in S |-> sha]

(***************************************************************************)
(* The branch command on a repository whose default branch is main or      *)
(* trunk, with or without the origin remote.                               *)
(***************************************************************************)
Init ==
    \E mainBr \in {Main, Trunk}, hasOrigin \in BOOLEAN :
        /\ refs = RefMap({RefsHeads \o mainBr}
                         \cup (IF hasOrigin THEN {RefsRemotesOrigin \o mainBr} ELSE {}),
                         Sha1)
        /\ worktrees = <<[path |-> Root, branch |-> mainBr, head |-> Sha1]>>
        /\ fs = Ancestors(Root)
        /\ remotes = IF hasOrigin THEN {Origin} ELSE {}
        /\ upstream = (mainBr :> Sha2)
        /\ files = NoFiles
        /\ run = Idle
        /\ last = NoCommand

BranchCmd ==
    \E target \in Tokens, base \in BaseOpts, dir \in DirOpts, fault \in Faults :
        LET opts == [base |-> base, dir |-> dir, yes |-> FALSE]
            r == branch(G, target, opts,
                        [fetchOk |-> fault # "fetch", addOk |-> fault # "add"])
        IN  /\ run.pc = "idle"
            /\ SetG(r.g)
            /\ last' = Done("branch", target, opts, fault, r, G)
            /\ UNCHANGED run

ResolveCmd ==
    \E target \in Tokens :
        LET r == resolveWorktreePath(G, target)
        IN  /\ run.pc = "idle"
            /\ last' = Done("resolveWorktreePath", target, NoOpts, "none", r, G)
            /\ UNCHANGED <<refs, worktrees, fs, remotes, upstream, files, run>>

\* another program creates branch d (git branch d)
EnvCreateBranch ==
    /\ RefsHeads \o D \notin DOMAIN refs
    /\ refs' = Ext(refs, RefsHeads \o D, Sha1)
    /\ UNCHANGED <<worktrees, fs, remotes, upstream, files, run, last>>

\* another program creates a directory
EnvMkdir ==
    \E p \in EnvDirs \ fs :
        /\ fs' = fs \cup Ancestors(p)
        /\ UNCHANGED <<refs, worktrees, remotes, upstream, files, run, last>>

Next ==
    \/ BranchCmd
    \/ ResolveCmd
    \/ EnvCreateBranch
    \/ EnvMkdir

Spec == Init /\ [][Next]_vars

(***************************************************************************)
(* The ref oracle and base synchronisation, on every combination of the    *)
(* four default-branch refs, of the configured remotes and of the server's *)
(* branches.                                                               *)
(***************************************************************************)
RemoteNames == {Origin, Origin2, Up}

DefaultRefs ==
    {RefsHeads \o Main, RefsRemotesOrigin \o Main, RefsHeads \o Master,
     RefsRemotesOrigin \o Master}

Upstreams == {<<>>, (Main :> Sha2), (Main :> Sha2) @@ (Master :> Sha2)}

InitRefs ==
    /\ refs \in {RefMap(S, Sha1) : S \in SUBSET DefaultRefs}
    /\ worktrees = <<[path |-> Root, branch |-> Main, head |-> Sha1]>>
    /\ fs = Ancestors(Root)
    /\ remotes \in SUBSET RemoteNames
    /\ upstream \in Upstreams
    /\ files = NoFiles
    /\ run = Idle
    /\ last = NoCommand

DetectCmd ==
    LET r == detectDefaultBranch(G)
    IN  /\ run.pc = "idle"
        /\ last' = Done("detectDefaultBranch", <<>>, NoOpts, "none", r, G)
        /\ UNCHANGED <<refs, worktrees, fs, remotes, upstream, files, run>>

EnsureCmd ==
    \E base \in {Main, Master}, fault \in {"none", "fetch"} :
        LET r == ensureBaseUpToDate(G, base, fault # "fetch")
        IN  /\ run.pc = "idle"
            /\ SetG(r.g)
            /\ last' = Done("ensureBaseUpToDate", base, NoOpts, fault, r, G)
            /\ UNCHANGED run

NextRefs ==
    \/ DetectCmd
    \/ EnsureCmd

SpecRefs == InitRefs /\ [][NextRefs]_vars

(***************************************************************************)
(* Orphan detection and pruning, on an inventory of up to MaxLinked linked *)
(* worktrees, each on a live branch, on a deleted branch, or detached.     *)
(***************************************************************************)
MaxLinked == 2

Digits == <<"1", "2", "3", "4", "5", "6", "7", "8", "9">>

LinkedBranch(i) == <<"b", Digits[i]>>

LinkedPath(i) == SiblingDir(LinkedBranch(i))

InitPrune ==
    \E n \in 0..MaxLinked, mainBorn \in BOOLEAN :
      \E kind \in [1..n -> {"live", "orphan", "detached"}] :
        /\ refs = RefMap((IF mainBorn THEN {RefsHeads \o Main} ELSE {})
                         \cup {RefsHeads \o LinkedBranch(i) :
                                  i \in {j \in 1..n : kind[j] # "orphan"}},
                         Sha1)
        /\ worktrees = <<[path |-> Root, branch |-> Main, head |-> Sha1]>>
                       \o [i \in 1..n |->
                             [path |-> LinkedPath(i),
                              branch |-> IF kind[i] = "detached" THEN Null
                                         ELSE LinkedBranch(i),
                              head |-> Sha1]]
        /\ fs = Ancestors(Root) \cup UNION {Ancestors(LinkedPath(i)) : i \in 1..n}
        /\ remotes = {Origin}
        /\ upstream = (Main :> Sha1)
        /\ files = NoFiles
        /\ run = Idle
        /\ last = NoCommand

FindOrphansCmd ==
    LET r == findOrphanedWorktrees(G)
    IN  /\ run.pc = "idle"
        /\ last' = [Done("findOrphanedWorktrees", <<>>, NoOpts, "none", r, G)
                       EXCEPT !.ret = Null, !.orphaned = r.ret]
        /\ UNCHANGED <<refs, worktrees, fs, remotes, upstream, files, run>>

PruneDone(count, err, calls) ==
    [op |-> "prune", target |-> <<>>, opts |-> [NoOpts EXCEPT !.yes = run'.yes],
     fault |-> "none", ret |-> Null, err |-> err, calls |-> calls, pre |-> run'.pre,
     post |-> [refs |-> refs', wts |-> worktrees', fs |-> fs', remotes |-> remotes',
               upstream |-> upstream', files |-> files'],
     orphaned |-> run'.orphaned, count |-> count]

\* variant: the confirmation is asked before the orphan list is looked at
PruneStartAsksFirst ==
    \E yes \in BOOLEAN :
        LET r == findOrphanedWorktrees(G)
            listed == r.calls \o [i \in 1..Len(r.ret) |-> Call("log-orphan", r.ret[i].path, <<>>)]
        IN  /\ run.pc = "idle"
            /\ UNCHANGED <<refs, worktrees, fs, remotes, upstream, files>>
            /\ IF Len(r.ret) = 0
               THEN /\ run' = [Idle EXCEPT !.yes = yes, !.pre = G]
                    /\ last' = PruneDone(0, "none",
                                         r.calls \o << Call("confirm", <<>>, <<>>),
                                                       Call("log-none-found", <<>>, <<>>) >>)
               ELSE /\ run' = [pc |-> IF yes THEN "remove" ELSE "confirm", yes |-> yes,
                               orphaned |-> r.ret, idx |-> 1, calls |-> listed, pre |-> G]
                    /\ last' = NoCommand

\* prune, up to the confirmation: find the orphans; none found ends the command
PruneStart ==
    \E yes \in BOOLEAN :
        LET r == findOrphanedWorktrees(G)
            listed == r.calls \o [i \in 1..Len(r.ret) |-> Call("log-orphan", r.ret[i].path, <<>>)]
        IN  /\ run.pc = "idle"
            /\ UNCHANGED <<refs, worktrees, fs, remotes, upstream, files>>
            /\ IF Len(r.ret) = 0
               THEN /\ run' = [Idle EXCEPT !.yes = yes, !.pre = G]
                    /\ last' = PruneDone(0, "none",
                                         Append(r.calls, Call("log-none-found", <<>>, <<>>)))
               ELSE /\ run' = [pc |-> IF yes THEN "remove" ELSE "confirm", yes |-> yes,
                               orphaned |-> r.ret, idx |-> 1, calls |-> listed, pre |-> G]
                    /\ last' = NoCommand

\* the confirmation prompt, asked unless yes is set; declining throws Aborted.
PruneConfirm ==
    \E proceed \in BOOLEAN :
        LET calls == Append(run.calls, Call("confirm", <<>>, <<>>))
        IN  /\ run.pc = "confirm"
            /\ UNCHANGED <<refs, worktrees, fs, remotes, upstream, files>>
            /\ IF proceed
               THEN /\ run' = [run EXCEPT !.pc = "remove", !.calls = calls]
                    /\ UNCHANGED last
               ELSE /\ run' = [run EXCEPT !.pc = "idle"]
                    /\ last' = PruneDone(-1, "aborted", calls)

\* variant: a failing removal ends the loop and fails the command
PruneRemoveStopsOnFailure ==
    \E ok \in BOOLEAN :
        LET wt == run.orphaned[run.idx]
            removed == GitWorktreeRemoveOk(G, wt.path, ok)
            calls == run.calls
                     \o << [Call("worktree-remove", wt.path, <<>>) EXCEPT !.s = <<"f">>],
                           Call(IF removed THEN "log-removed" ELSE "log-failed",
                                wt.path, <<>>) >>
        IN  /\ run.pc = "remove"
            /\ IF removed THEN SetG(GitWorktreeRemove(G, wt.path))
               ELSE UNCHANGED <<refs, worktrees, fs, remotes, upstream, files>>
            /\ IF ~removed
               THEN /\ run' = [run EXCEPT !.pc = "idle", !.calls = calls]
                    /\ last' = PruneDone(-1, "remove-failed", calls)
               ELSE IF run.idx = Len(run.orphaned)
               THEN /\ run' = [run EXCEPT !.pc = "idle", !.calls = calls]
                    /\ last' = PruneDone(Len(run.orphaned), "none", calls)
               ELSE /\ run' = [run EXCEPT !.idx = @ + 1, !.calls = calls]
                    /\ UNCHANGED last

\* one iteration of the removal loop; after the last one prune returns
PruneRemove ==
    \E ok \in BOOLEAN :
        LET wt == run.orphaned[run.idx]
            removed == GitWorktreeRemoveOk(G, wt.path, ok)
            calls == run.calls
                     \o << [Call("worktree-remove", wt.path, <<>>) EXCEPT !.s = <<"f">>],
                           Call(IF removed THEN "log-removed" ELSE "log-failed",
                                wt.path, <<>>) >>
        IN  /\ run.pc = "remove"
            /\ IF removed THEN SetG(GitWorktreeRemove(G, wt.path))
               ELSE UNCHANGED <<refs, worktrees, fs, remotes, upstream, files>>
            /\ IF run.idx = Len(run.orphaned)
               THEN /\ run' = [run EXCEPT !.pc = "idle", !.calls = calls]
                    /\ last' = PruneDone(Len(run.orphaned), "none", calls)
               ELSE /\ run' = [run EXCEPT !.idx = @ + 1, !.calls = calls]
                    /\ UNCHANGED last

\* while prune runs, another program creates or deletes the branch of a worktree
EnvRecreateBranch ==
    \E i \in 1..MaxLinked :
        /\ run.pc # "idle"
        /\ RefsHeads \o LinkedBranch(i) \notin DOMAIN refs
        /\ refs' = Ext(refs, RefsHeads \o LinkedBranch(i), Sha2)
        /\ UNCHANGED <<worktrees, fs, remotes, upstream, files, run, last>>

NextPrune ==
    \/ FindOrphansCmd
    \/ PruneStart
    \/ PruneConfirm
    \/ PruneRemove
    \/ EnvRecreateBranch

SpecPrune == InitPrune /\ [][NextPrune]_vars

(***************************************************************************)
(* Vocabulary of the claims, stated on the repository itself.              *)
(***************************************************************************)
\* the token names an existing filesystem entry
FsHit(g, t) == t # <<>> /\ PathResolve(t) \in g.fs

\* the registered worktrees that carry branch t
Carriers(g, t) == {i \in 1..Len(g.wts) : g.wts[i].branch = t}

FirstCarrierPath(g, t) ==
    g.wts[CHOOSE i \in Carriers(g, t) : \A j \in Carriers(g, t) : i <= j].path

HasBranch(g, b) == (RefsHeads \o b) \in DOMAIN g.refs

CallsOf(calls, tags) == SelectSeq(calls, LAMBDA c : c.c \in tags)

AddTags == {"worktree-add", "worktree-add -b"}

\* C1: whenever the token is an existing filesystem entry or the branch of a
\* registered worktree, branch returns that path at once: no name validation, no
\* prompt, no ref query, no base detection, no fetch, no worktree-add, no copy.
C1_HitReturnsAtOnce ==
    (last.op = "branch" /\ (FsHit(last.pre, last.target)
                            \/ Carriers(last.pre, last.target) # {}))
    => /\ last.err = "none"
       /\ last.ret = IF FsHit(last.pre, last.target) THEN PathResolve(last.target)
                     ELSE FirstCarrierPath(last.pre, last.target)
       /\ \A i \in 1..Len(last.calls) : last.calls[i].c \in {"stat", "worktree-list"}
       /\ last.post = last.pre

C1_Witness ==
    /\ last.op = "branch"
    /\ ~FsHit(last.pre, last.target)
    /\ Carriers(last.pre, last.target) # {}
    /\ last.ret = SiblingDir(D)

\* the precondition of the create-new scenario
CreateNewCase ==
    /\ last.op = "branch"
    /\ last.opts.base = Null
    /\ last.opts.dir = Null
    /\ validateBranchName(last.target) = "ok"
    /\ ~FsHit(last.pre, last.target)
    /\ ~HasBranch(last.pre, last.target)
    /\ Carriers(last.pre, last.target) = {}

\* C2 as stated: in every such state branch(T) creates branch T and returns the
\* default directory.
C2_AlwaysCreates ==
    CreateNewCase
    => /\ last.err = "none"
       /\ HasBranch(last.post, last.target)
       /\ last.ret = SiblingDir(last.target)

\* main if refs/heads/main or refs/remotes/origin/main exists, else master
DefaultOf(g) ==
    IF (RefsHeads \o Main) \in DOMAIN g.refs \/ (RefsRemotesOrigin \o Main) \in DOMAIN g.refs
    THEN Main ELSE Master

CreateFailures ==
    {"no-default-branch", "no-origin", "fetch-failed", "base-missing", "dir-exists",
     "add-failed"}

\* C2 amended: in every such state branch(T) with neither base nor dir option
\* either fails (no default branch, no origin, fetch failure, default branch
\* missing on origin, destination exists, worktree-add failure) creating no branch
\* and no worktree, or creates branch T at the commit origin/<detected default>
\* resolves to after the fetch, with a worktree at <parent-of-root>/<repo>-T,
\* which it returns.
C2_CreatesOrFails ==
    CreateNewCase
    => \/ /\ last.err \in CreateFailures \ {"add-failed"}
          /\ last.ret = Null
          /\ CallsOf(last.calls, AddTags) = <<>>
          /\ ~HasBranch(last.post, last.target)
          /\ last.post.wts = last.pre.wts
       \/ /\ last.err = "add-failed"
          /\ last.ret = Null
          /\ Len(CallsOf(last.calls, AddTags)) = 1
       \/ /\ last.err = "none"
          /\ last.ret = SiblingDir(last.target)
          /\ HasBranch(last.post, last.target)
          /\ last.post.refs[RefsHeads \o last.target]
                = last.post.refs[RefsRemotesOrigin \o DefaultOf(last.pre)]
          /\ last.post.refs[RefsRemotesOrigin \o DefaultOf(last.pre)]
                = last.pre.upstream[DefaultOf(last.pre)]
          /\ last.post.wts = Append(last.pre.wts,
                                    [path |-> SiblingDir(last.target),
                                     branch |-> last.target,
                                     head |-> last.pre.upstream[DefaultOf(last.pre)]])

C2_Witness ==
    /\ CreateNewCase
    /\ last.err = "none"
    /\ last.target = D
    /\ last.post.refs[RefsHeads \o D] = Sha2

\* the precondition of the reuse-existing-branch scenario
ReuseCase ==
    /\ last.op = "branch"
    /\ ~FsHit(last.pre, last.target)
    /\ HasBranch(last.pre, last.target)
    /\ Carriers(last.pre, last.target) = {}

\* the directory createWorktreeForExistingBranch is to use
ReuseDir == IF last.opts.dir = Null THEN SiblingDir(last.target) ELSE last.opts.dir

\* no default-branch detection, no origin-remote check, no fetch: the only ref
\* queried is the target branch itself
NoBaseWork ==
    /\ CallsOf(last.calls, {"remote", "fetch", "rev-parse"}) = <<>>
    /\ \A i \in 1..Len(last.calls) :
          last.calls[i].c = "show-ref" => last.calls[i].a = RefsHeads \o last.target

OneAddWithoutNewBranch ==
    CallsOf(last.calls, AddTags) = <<AddCall(ReuseDir, FALSE, last.target, <<>>)>>

Created ==
    /\ last.op = "branch"
    /\ last.err = "none"
    /\ CallsOf(last.calls, AddTags) # <<>>

\* C4: every successful creation leaves exactly one new record in the next
\* inventory read: its path is the returned directory (the dir option if given,
\* else the default sibling directory), its branch is the requested branch, and
\* the records that existed before are unchanged.
C4_OneNewRecordAtReturnedDir ==
    Created
    => LET before == parseWorktrees(last.pre)
           after == parseWorktrees(last.post)
       IN  /\ Len(after) = Len(before) + 1
           /\ SubSeq(after, 1, Len(before)) = before
           /\ after[Len(after)].branch = last.target
           /\ after[Len(after)].path = last.ret
           /\ last.ret = IF last.opts.dir = Null THEN SiblingDir(last.target)
                         ELSE last.opts.dir

\* C5: for a token that names an existing directory and is also the branch of a
\* worktree at a different path, resolveWorktreePath returns the absolute form of
\* the directory, never that worktree's path, and does not read the inventory.
C5_DirectoryBeforeBranch ==
    (/\ last.op = "resolveWorktreePath"
     /\ FsHit(last.pre, last.target)
     /\ \E i \in Carriers(last.pre, last.target) :
           last.pre.wts[i].path # PathResolve(last.target))
    => /\ last.ret = PathResolve(last.target)
       /\ \A i \in Carriers(last.pre, last.target) : last.ret # last.pre.wts[i].path
       /\ CallsOf(last.calls, {"worktree-list"}) = <<>>

C5_Witness ==
    /\ last.op = "resolveWorktreePath"
    /\ last.target = D
    /\ FsHit(last.pre, D)
    /\ Carriers(last.pre, D) # {}
    /\ last.ret = SubD

\* the records that have a branch whose refs/heads/<branch> does not exist, as
\* {path, branch}, in inventory order
RECURSIVE OrphansOf(_, _)
OrphansOf(g, wts) ==
    IF wts = <<>> THEN <<>>
    ELSE (IF Head(wts).branch # Null /\ ~HasBranch(g, Head(wts).branch)
          THEN <<[path |-> Head(wts).path, branch |-> Head(wts).branch]>>
          ELSE <<>>)
         \o OrphansOf(g, Tail(wts))

\* C6: findOrphanedWorktrees returns, in inventory order, exactly the {path,
\* branch} of the records that have a branch whose refs/heads/<branch> does not
\* exist; a record without a branch is never in the result.
C6_ExactlyTheOrphans ==
    last.op = "findOrphanedWorktrees"
    => /\ last.orphaned = OrphansOf(last.pre, last.pre.wts)
       /\ \A i \in 1..Len(last.pre.wts) :
             last.pre.wts[i].branch = Null
             => \A k \in 1..Len(last.orphaned) :
                   last.orphaned[k].path # last.pre.wts[i].path

C6_Witness ==
    /\ last.op = "findOrphanedWorktrees"
    /\ \E i \in 1..Len(last.pre.wts) : last.pre.wts[i].branch = Null
    /\ Len(last.orphaned) >= 1

RemoveTags == {"worktree-remove"}

\* C7: prune with zero orphaned worktrees reports none found, returns 0, asks
\* for no confirmation and issues no worktree removal; inventory, branches and
\* filesystem are unchanged.
C7_NoOrphansNoEffect ==
    (last.op = "prune" /\ OrphansOf(last.pre, last.pre.wts) = <<>>)
    => /\ last.err = "none"
       /\ last.count = 0
       /\ CallsOf(last.calls, {"log-none-found"}) # <<>>
       /\ CallsOf(last.calls, {"confirm"}) = <<>>
       /\ CallsOf(last.calls, RemoveTags) = <<>>
       /\ last.post = last.pre

C7_Witness ==
    /\ last.op = "prune"
    /\ OrphansOf(last.pre, last.pre.wts) = <<>>
    /\ Len(last.pre.wts) > 1
    /\ last.count = 0

\* C8: prune with a non-empty orphan list, once confirmed or with yes set,
\* issues exactly one forced removal per orphan, for the orphan paths in list
\* order; a failing removal is reported, the remaining orphans are still
\* attempted, and prune does not fail.
C8_OneForcedRemovalPerOrphan ==
    (/\ last.op = "prune"
     /\ OrphansOf(last.pre, last.pre.wts) # <<>>
     /\ last.err # "aborted")
    => LET orphans == OrphansOf(last.pre, last.pre.wts)
           removals == CallsOf(last.calls, RemoveTags)
       IN  /\ last.err = "none"
           /\ Len(removals) = Len(orphans)
           /\ \A k \in 1..Len(orphans) :
                 removals[k].a = orphans[k].path /\ removals[k].s = <<"f">>
           /\ Len(CallsOf(last.calls, {"log-removed", "log-failed"})) = Len(orphans)
           /\ (last.opts.yes <=> CallsOf(last.calls, {"confirm"}) = <<>>)

C8_Witness ==
    /\ last.op = "prune"
    /\ last.err = "none"
    /\ Len(last.orphaned) = 2
    /\ CallsOf(last.calls, {"log-removed", "log-failed"})
          = << Call("log-failed", last.orphaned[1].path, <<>>),
               Call("log-removed", last.orphaned[2].path, <<>>) >>
    /\ last.orphaned[2].path \notin last.post.fs
    /\ last.orphaned[1].path \in last.post.fs

\* C9: detectDefaultBranch queries refs/heads/main, refs/remotes/origin/main,
\* refs/heads/master, refs/remotes/origin/master in that order, stops at the
\* first that exists and returns its branch name; when none exists it fails
\* with the could-not-detect error and returns no branch.
DetectOrder ==
    << RefsHeads \o Main, RefsRemotesOrigin \o Main, RefsHeads \o Master,
       RefsRemotesOrigin \o Master >>

C9_StrictDetectionOrder ==
    last.op = "detectDefaultBranch"
    => LET hits == {i \in 1..4 : DetectOrder[i] \in DOMAIN last.pre.refs}
           first == CHOOSE i \in hits : \A j \in hits : i <= j
           n == IF hits = {} THEN 4 ELSE first
       IN  /\ last.calls = [i \in 1..n |-> Call("show-ref", DetectOrder[i], <<>>)]
           /\ IF hits = {}
              THEN last.err = "no-default-branch" /\ last.ret = Null
              ELSE /\ last.err = "none"
                   /\ last.ret = IF first <= 2 THEN Main ELSE Master

C9_Witness ==
    /\ last.op = "detectDefaultBranch"
    /\ last.ret = Master
    /\ (RefsHeads \o Master) \notin DOMAIN last.pre.refs

\* C10: for every set of configured remote names that does not contain the
\* name origin, ensureBaseUpToDate fails with the no-origin error before any
\* fetch is issued.
C10_NoOriginFailsBeforeFetch ==
    (last.op = "ensureBaseUpToDate" /\ Origin \notin last.pre.remotes)
    => /\ last.err = "no-origin"
       /\ CallsOf(last.calls, {"fetch"}) = <<>>

(***************************************************************************)
(* The two creation entry points and base synchronisation called directly, *)
(* on a repository where branch d and its default directory may or may not *)
(* exist already.                                                          *)
(***************************************************************************)
\* a name ending in a slash
DSlash == <<"d", "/">>

CreateNames == {D, RelD, DSlash, <<>>}

InitCreate ==
    \E hasOrigin \in BOOLEAN, tracked \in BOOLEAN, hasD \in BOOLEAN, dirD \in BOOLEAN :
        /\ refs = RefMap({RefsHeads \o Main}
                         \cup (IF tracked THEN {RefsRemotesOrigin \o Main} ELSE {})
                         \cup (IF hasD THEN {RefsHeads \o D} ELSE {}),
                         Sha1)
        /\ worktrees = <<[path |-> Root, branch |-> Main, head |-> Sha1]>>
        /\ fs = Ancestors(Root) \cup (IF dirD THEN {SiblingDir(D)} ELSE {})
        /\ remotes = IF hasOrigin THEN {Origin} ELSE {}
        /\ upstream \in Upstreams
        /\ files = NoFiles
        /\ run = Idle
        /\ last = NoCommand

CreateWorktreeCmd ==
    \E b \in CreateNames, base \in BaseOpts, dir \in DirOpts, fault \in Faults :
        LET opts == [base |-> base, dir |-> dir, yes |-> FALSE]
            r == createWorktree(G, b, opts,
                                [fetchOk |-> fault # "fetch", addOk |-> fault # "add"])
        IN  /\ run.pc = "idle"
            /\ SetG(r.g)
            /\ last' = Done("createWorktree", b, opts, fault, r, G)
            /\ UNCHANGED run

CreateForExistingCmd ==
    \E b \in CreateNames, dir \in DirOpts, fault \in {"none", "add"} :
        LET opts == [base |-> Null, dir |-> dir, yes |-> FALSE]
            r == createWorktreeForExistingBranch(G, b, opts,
                                                 [fetchOk |-> TRUE, addOk |-> fault # "add"])
        IN  /\ run.pc = "idle"
            /\ SetG(r.g)
            /\ last' = Done("createWorktreeForExistingBranch", b, opts, fault, r, G)
            /\ UNCHANGED run

NextCreate ==
    \/ EnsureCmd
    \/ CreateWorktreeCmd
    \/ CreateForExistingCmd

SpecCreate == InitCreate /\ [][NextCreate]_vars

\* the output of git remote contains the text origin
RemoteListShowsOrigin(g) == \E r \in g.remotes : Includes(r, Origin)

\* C11 as stated: ensureBaseUpToDate(base) issues exactly one fetch.
C11_ExactlyOneFetch ==
    last.op = "ensureBaseUpToDate" => Len(CallsOf(last.calls, {"fetch"})) = 1

\* C11 amended: ensureBaseUpToDate(base) issues no fetch when the remote list
\* does not show origin and exactly one fetch otherwise; a failing fetch gives
\* the fetch error with no second fetch and no ref query; when
\* refs/remotes/origin/<base> is missing after the fetch it fails with the
\* error naming base; otherwise it returns the commit that origin/<base> points
\* to after the fetch, never a branch name, and createWorktree creates the new
\* branch at exactly that commit.
C11_OneFetchThenCommit ==
    /\ last.op = "ensureBaseUpToDate"
       => LET fetches == CallsOf(last.calls, {"fetch"})
              tracking == RefsRemotesOrigin \o last.target
          IN  /\ Len(fetches) = IF RemoteListShowsOrigin(last.pre) THEN 1 ELSE 0
              /\ last.err \in {"none", "no-origin", "fetch-failed", "base-missing"}
              /\ (RemoteListShowsOrigin(last.pre)
                  /\ (last.fault = "fetch" \/ Origin \notin last.pre.remotes))
                 => /\ last.err = "fetch-failed"
                    /\ last.calls[Len(last.calls)].c = "fetch"
                    /\ last.post = last.pre
              /\ last.err = "base-missing"
                 => /\ Len(fetches) = 1
                    /\ tracking \notin DOMAIN last.post.refs
                    /\ last.target \notin DOMAIN last.pre.upstream
              /\ last.err = "none"
                 => /\ tracking \in DOMAIN last.post.refs
                    /\ last.ret = last.post.refs[tracking]
                    /\ last.target \in DOMAIN last.pre.upstream
                       => last.ret = last.pre.upstream[last.target]
                    /\ last.ret \notin {OriginSlash \o last.target, last.target}
              /\ (last.err \in {"none", "base-missing"})
                 => (tracking \in DOMAIN last.post.refs <=> last.err = "none")
    /\ (last.op = "createWorktree" /\ last.err = "none")
       => LET base == IF last.opts.base = Null THEN DefaultOf(last.pre)
                      ELSE last.opts.base
              adds == CallsOf(last.calls, AddTags)
          IN  /\ Len(CallsOf(last.calls, {"fetch"})) = 1
              /\ Len(adds) = 1
              /\ adds[1].s = last.post.refs[RefsRemotesOrigin \o base]
              /\ adds[1].s \notin {OriginSlash \o base, base}
              /\ last.post.refs[RefsHeads \o last.target]
                    = last.post.refs[RefsRemotesOrigin \o base]
              /\ base \in DOMAIN last.pre.upstream
                 => last.post.refs[RefsHeads \o last.target] = last.pre.upstream[base]

\* the remote-tracking ref pointed at an older commit before the call
C11_Witness ==
    /\ last.op = "ensureBaseUpToDate"
    /\ last.err = "none"
    /\ (RefsRemotesOrigin \o last.target) \in DOMAIN last.pre.refs
    /\ last.pre.refs[RefsRemotesOrigin \o last.target] = Sha1
    /\ last.ret = Sha2

\* the two creation entry points
CreateOps == {"createWorktree", "createWorktreeForExistingBranch"}

\* the steps that change the repository or the filesystem
MutatingTags == {"fetch", "worktree-add", "worktree-add -b", "mkdir", "copy-untracked"}

\* C12: whenever createWorktree or createWorktreeForExistingBranch ends with
\* the branch-already-exists or the directory-already-exists error, it has
\* issued no state-changing call (no fetch, no worktree-add, no directory
\* creation, no copy), and refs, inventory and filesystem are as they were at
\* the start of the call.
C12_PreconditionFailureChangesNothing ==
    (last.op \in CreateOps /\ last.err \in {"branch-exists", "dir-exists"})
    => /\ CallsOf(last.calls, MutatingTags) = <<>>
       /\ last.post.refs = last.pre.refs
       /\ last.post.wts = last.pre.wts
       /\ last.post.fs = last.pre.fs

\* C13: for every name that validateBranchName rejects, createWorktree and
\* createWorktreeForExistingBranch fail with the validation error and the
\* validation is their only step: no ref query, no repo-root query, no fetch, no
\* filesystem check and no worktree-add has been issued, and nothing changed.
C13_InvalidNameFailsFirst ==
    (last.op \in CreateOps /\ validateBranchName(last.target) # "ok")
    => /\ last.err = "invalid-name"
       /\ last.ret = Null
       /\ last.calls = <<Call("validate", last.target, <<>>)>>
       /\ last.post = last.pre

\* a rejected name in a repository where everything else would have succeeded
C13_Witness ==
    /\ last.op = "createWorktree"
    /\ last.target = DSlash
    /\ last.err = "invalid-name"
    /\ last.fault = "none"
    /\ Origin \in last.pre.remotes
    /\ Main \in DOMAIN last.pre.upstream

(***************************************************************************)
(* Dev container scaffolding: the validators of image name, package list   *)
(* and port list, and initDevcontainer.                                    *)
(***************************************************************************)
UpperCase ==
    {"A", "B", "C", "D", "E", "F", "G", "H", "I", "J", "K", "L", "M", "N", "O", "P",
     "Q", "R", "S", "T", "U", "V", "W", "X", "Y", "Z"}

LowerCase ==
    {"a", "b", "c", "d", "e", "f", "g", "h", "i", "j", "k", "l", "m", "n", "o", "p",
     "q", "r", "s", "t", "u", "v", "w", "x", "y", "z"}

DigitChars == {"0", "1", "2", "3", "4", "5", "6", "7", "8", "9"}

DigitVal(c) == CHOOSE n \in 0..9 : <<"0", "1", "2", "3", "4", "5", "6", "7", "8", "9">>[n + 1] = c

\* String.prototype.split on one-character separators
RECURSIVE SplitOnAcc(_, _, _, _)
SplitOnAcc(s, seps, cur, acc) ==
    IF s = <<>> THEN Append(acc, cur)
    ELSE IF Head(s) \in seps THEN SplitOnAcc(Tail(s), seps, <<>>, Append(acc, cur))
    ELSE SplitOnAcc(Tail(s), seps, Append(cur, Head(s)), acc)

SplitOn(s, seps) == SplitOnAcc(s, seps, <<>>, <<>>)

\* split(/\s+/) of a string without leading or trailing whitespace: a run of
\* whitespace separates once
SplitWhitespace(s) == SelectSeq(SplitOn(s, Whitespace), LAMBDA x : x # <<>>)

\* Number.parseInt(s, 10): optional sign, then the longest prefix of digits;
\* nan when there is no digit
RECURSIVE DigitsPrefix(_, _, _)
DigitsPrefix(s, seen, v) ==
    IF s # <<>> /\ Head(s) \in DigitChars
    THEN DigitsPrefix(Tail(s), TRUE, IF v > 65535 THEN v ELSE v * 10 + DigitVal(Head(s)))
    ELSE [nan |-> ~seen, v |-> v]

ParseInt(s) ==
    LET t == TrimLeft(s)
        neg == t # <<>> /\ Head(t) = "-"
        signed == t # <<>> /\ Head(t) \in {"-", "+"}
        r == DigitsPrefix(IF signed THEN Tail(t) ELSE t, FALSE, 0)
    IN  [nan |-> r.nan, v |-> IF neg THEN 0 - r.v ELSE r.v]

\* TRUE when the list is accepted
validatePortList(ports) ==
    \/ ports = <<>>
    \/ Trim(ports) = <<>>
    \/ LET portArray == SplitOn(ports, {","})
       IN  \A i \in 1..Len(portArray) :
               LET num == ParseInt(Trim(portArray[i]))
               IN  ~(num.nan \/ num.v < 1 \/ num.v > 65535)

validateDockerImage(image) ==
    LET parts == SplitOn(image, {"/"})
        imagePart == parts[Len(parts)]
        name == Head(SplitOn(imagePart, {":"}))
    IN  /\ ~(image = <<>> \/ Trim(image) = <<>>)
        /\ ~(\E i \in 1..Len(image) : image[i] \in Whitespace)
        /\ ~(imagePart # <<>> /\ \E i \in 1..Len(name) : name[i] \in UpperCase)

\* the shell metacharacters of the package check; the backquote, which the
\* check rejects as well, has no spelling in a string here and is in no input
ShellMeta == {";", "&", "|", "$", "(", ")"}

PackageChars == LowerCase \cup UpperCase \cup DigitChars \cup {".", "+", "-"}

validatePackageNames(packages) ==
    \/ packages = <<>>
    \/ Trim(packages) = <<>>
    \/ LET pkgArray == SplitWhitespace(packages)
       IN  \A i \in 1..Len(pkgArray) :
               /\ ~(\E j \in 1..Len(pkgArray[i]) : pkgArray[i][j] \in ShellMeta)
               /\ \A j \in 1..Len(pkgArray[i]) : pkgArray[i][j] \in PackageChars

DefaultImage == <<"m", "c", "r", ".", "m", "i", "c", "r", "o", "s", "o", "f", "t", ".", "c", "o", "m", "/", "d", "e", "v", "c", "o", "n", "t", "a", "i", "n", "e", "r", "s", "/", "b", "a", "s", "e", ":", "u", "b", "u", "n", "t", "u">>

DevDir == Root \o <<"/", ".", "d", "e", "v", "c", "o", "n", "t", "a", "i", "n", "e", "r">>

DevFiles == << DevDir \o <<"/", "D", "o", "c", "k", "e", "r", "f", "i", "l", "e">>, DevDir \o <<"/", "d", "e", "v", "c", "o", "n", "t", "a", "i", "n", "e", "r", ".", "j", "s", "o", "n">>, DevDir \o <<"/", ".", "d", "o", "c", "k", "e", "r", "i", "g", "n", "o", "r", "e">> >>

\* the three files, each written only when it does not exist yet
RECURSIVE WriteMissing(_, _, _)
WriteMissing(g, paths, calls) ==
    IF paths = <<>> THEN Result(Null, "none", calls, g)
    ELSE LET f == Head(paths)
             c1 == Append(calls, Call("stat", f, <<>>))
         IN  IF fileExists(g, f) THEN WriteMissing(g, Tail(paths), c1)
             ELSE WriteMissing([g EXCEPT !.fs = @ \cup {f}], Tail(paths),
                               Append(c1, Call("write", f, <<>>)))

initDevcontainer(g, opts) ==
    LET c0 == <<Call("show-toplevel", <<>>, <<>>), Call("mkdir", DevDir, <<>>)>>
        g1 == [g EXCEPT !.fs = @ \cup Ancestors(DevDir)]
        image == IF opts.image = Null THEN DefaultImage ELSE opts.image
        packages == Trim(IF opts.packages = Null THEN <<>> ELSE opts.packages)
        ports == Trim(IF opts.ports = Null THEN <<>> ELSE opts.ports)
        c1 == Append(c0, Call("validate-image", image, <<>>))
        c2 == IF Truthy(packages) THEN Append(c1, Call("validate-packages", packages, <<>>))
              ELSE c1
        c3 == IF Truthy(ports) THEN Append(c2, Call("validate-ports", ports, <<>>)) ELSE c2
    IN  IF ~validateDockerImage(image) THEN Result(Null, "invalid-image", c1, g1)
        ELSE IF Truthy(packages) /\ ~validatePackageNames(packages)
             THEN Result(Null, "invalid-packages", c2, g1)
        ELSE IF Truthy(ports) /\ ~validatePortList(ports)
             THEN Result(Null, "invalid-ports", c3, g1)
        ELSE WriteMissing(g1, DevFiles, c3)

Images == {Null, <<>>, <<"u", ":", "1">>, <<"r", "/", "U">>, <<"a", " ", "b">>}

PackageLists == {Null, <<"g", " ", " ", "c">>, <<"g", ";">>, <<"g", "_">>}

PortLists == {Null, <<"8", "0", ",", " ", "6", "5", "5", "3", "5">>, <<"0">>, <<"6", "5", "5", "3", "6">>, <<"x">>, <<"8", "0", "x">>}

InitDev ==
    /\ refs = RefMap({RefsHeads \o Main}, Sha1)
    /\ worktrees = <<[path |-> Root, branch |-> Main, head |-> Sha1]>>
    /\ fs \in {Ancestors(Root) \cup S :
                  S \in {{}, {DevDir}, {DevDir, DevFiles[1]}, {DevDir, DevFiles[2], DevFiles[3]}}}
    /\ remotes = {Origin}
    /\ upstream = (Main :> Sha1)
    /\ files = NoFiles
    /\ run = Idle
    /\ last = NoCommand

InitDevcontainerCmd ==
    \E image \in Images, packages \in PackageLists, ports \in PortLists :
        LET opts == [image |-> image, packages |-> packages, ports |-> ports]
            r == initDevcontainer(G, opts)
        IN  /\ run.pc = "idle"
            /\ SetG(r.g)
            /\ last' = Done("initDevcontainer", <<>>, opts, "none", r, G)
            /\ UNCHANGED run

\* another program removes the dev container directory
EnvRemoveDevDir ==
    /\ DevDir \in fs
    /\ fs' = {p \in fs : p # DevDir /\ ~StartsWith(p, DevDir \o <<"/">>)}
    /\ UNCHANGED <<refs, worktrees, remotes, upstream, files, run, last>>

NextDev ==
    \/ InitDevcontainerCmd
    \/ EnvRemoveDevDir

SpecDev == InitDev /\ [][NextDev]_vars

DevValidationErrors == {"invalid-image", "invalid-packages", "invalid-ports"}

DevValidationTags == {"validate-image", "validate-packages", "validate-ports"}

\* C14: whenever initDevcontainer raises a validation error (invalid image
\* name, package list or port list), it has made no external call before: no
\* repository query, no directory created, no file written.
C14_ValidationBeforeAnyCall ==
    (last.op = "initDevcontainer" /\ last.err \in DevValidationErrors)
    => /\ \A i \in 1..Len(last.calls) : last.calls[i].c \in DevValidationTags
       /\ last.post.fs = last.pre.fs

(***************************************************************************)
(* The post-checkout hook: installPruneHook, and the branch command of the *)
(* command line, which installs the hook and then runs branch.             *)
(***************************************************************************)
\* path.resolve(root, gitDir, "hooks") with gitDir = ".git" in the main worktree
HooksDir == PathResolve2(PathResolve2(Root, DotGit), <<"h", "o", "o", "k", "s">>)

HookPath == HooksDir \o <<"/", "p", "o", "s", "t", "-", "c", "h", "e", "c", "k", "o", "u", "t">>

\* #!/bin/sh
\* # Auto-installed by twig: prune orphaned worktrees
\* twig prune --yes 2>/dev/null || true
hookContent ==
    << "#", "!", "/", "b", "i", "n", "/", "s", "h", "\n", "#", " ", "A",
    "u", "t", "o", "-", "i", "n", "s", "t", "a", "l", "l", "e", "d", " ",
    "b", "y", " ", "t", "w", "i", "g", ":", " ", "p", "r", "u", "n", "e",
    " ", "o", "r", "p", "h", "a", "n", "e", "d", " ", "w", "o", "r", "k",
    "t", "r", "e", "e", "s", "\n", "t", "w", "i", "g", " ", "p", "r",
    "u", "n", "e", " ", "-", "-", "y", "e", "s", " ", "2", ">", "/", "d",
    "e", "v", "/", "n", "u", "l", "l", " ", "|", "|", " ", "t", "r", "u",
    "e", "\n" >>

\* the text installPruneHook looks for
TwigPrune == <<"t", "w", "i", "g", " ", "p", "r", "u", "n", "e">>

Occurrences(s, p) ==
    Cardinality({i \in 0..(Len(s) - Len(p)) : SubSeq(s, i + 1, i + Len(p)) = p})

\* o.readOk, o.appendOk, o.createOk, o.chmodOk: whether reading an existing
\* hook, the appending write, the creating write and chmod succeed; reading a
\* missing file always fails
installPruneHook(g, o) ==
    LET c0 == << Call("show-toplevel", <<>>, <<>>), Call("git-dir", <<>>, <<>>),
                 Call("mkdir", HooksDir, <<>>), Call("read", HookPath, <<>>) >>
        g1 == [g EXCEPT !.fs = @ \cup Ancestors(HooksDir)]
        exists == HookPath \in DOMAIN g.files
        existingContent == g.files[HookPath].content
        appended == existingContent \o <<"\n">> \o hookContent
        gApp == [g1 EXCEPT !.files = Ext(@, HookPath,
                                         [content |-> appended,
                                          exec |-> g.files[HookPath].exec])]
        cApp == Append(c0, Call("write", HookPath, appended))
        cCatch == IF exists /\ o.readOk THEN cApp ELSE c0
        cNew == Append(cCatch, Call("write", HookPath, hookContent))
        cMod == Append(cNew, Call("chmod", HookPath, <<>>))
        gNew(x) == [g1 EXCEPT !.files = Ext(@, HookPath, [content |-> hookContent,
                                                          exec |-> x]),
                              !.fs = @ \cup {HookPath}]
        wasExec == exists /\ g.files[HookPath].exec
    IN  IF exists /\ o.readOk /\ Includes(existingContent, TwigPrune)
        THEN Result(FALSE, "none", c0, g1)
        ELSE IF exists /\ o.readOk /\ o.appendOk THEN Result(TRUE, "none", cApp, gApp)
        ELSE IF ~o.createOk THEN Result(Null, "write-failed", cNew, g1)
        ELSE IF ~o.chmodOk THEN Result(Null, "chmod-failed", cMod, gNew(wasExec))
        ELSE Result(TRUE, "none", cMod, gNew(TRUE))

\* the action of the branch command: install the hook, then run branch, then
\* open the editor on the directory (without --in-container); h and b are the
\* results of installPruneHook and of branch run on the state h left
branchCommand(h, b) ==
    IF h.err # "none" THEN Result(Null, h.err, h.calls, h.g)
    ELSE IF b.err # "none" THEN Result(Null, b.err, h.calls \o b.calls, b.g)
    ELSE Result(b.ret, "none",
                Append(h.calls \o b.calls, Call("open-editor", b.ret, <<>>)), b.g)

HookFaults == {"none", "read", "append", "write", "chmod"}

HookOutcome(f) ==
    [readOk |-> f # "read", appendOk |-> f \notin {"append", "write"},
     createOk |-> f # "write", chmodOk |-> f # "chmod"]

\* a hook script of the user, without and with a prune invocation of its own
CustomHook == <<"e", "c", "h", "o", "\n">>

MarkedHook == <<"t", "w", "i", "g", " ", "p", "r", "u", "n", "e", "\n">>

UserHooks == {CustomHook, MarkedHook}

InitHook ==
    \E hasOrigin \in BOOLEAN, hasHook \in BOOLEAN :
        /\ refs = RefMap({RefsHeads \o Main}, Sha1)
        /\ worktrees = <<[path |-> Root, branch |-> Main, head |-> Sha1]>>
        /\ remotes = IF hasOrigin THEN {Origin} ELSE {}
        /\ upstream = (Main :> Sha2)
        /\ IF hasHook
           THEN \E c \in UserHooks, x \in BOOLEAN :
                    /\ files = (HookPath :> [content |-> c, exec |-> x])
                    /\ fs = Ancestors(Root) \cup Ancestors(HookPath)
           ELSE /\ files = NoFiles
                /\ fs \in {Ancestors(Root), Ancestors(Root) \cup Ancestors(HooksDir)}
        /\ run = Idle
        /\ last = NoCommand

InstallHookCmd ==
    \E f \in HookFaults :
        LET r == installPruneHook(G, HookOutcome(f))
        IN  /\ run.pc = "idle"
            /\ SetG(r.g)
            /\ last' = Done("installPruneHook", <<>>, NoOpts, f, r, G)
            /\ UNCHANGED run

BranchCommandCmd ==
    \E target \in Tokens, fault \in Faults :
        \E h \in {installPruneHook(G, HookOutcome("none"))} :
            \E b \in {branch(h.g, target, NoOpts,
                              [fetchOk |-> fault # "fetch", addOk |-> fault # "add"])} :
                \E r \in {branchCommand(h, b)} :
                    /\ run.pc = "idle"
                    /\ SetG(r.g)
                    /\ last' = Done("branchCommand", target, NoOpts, fault, r, G)
                    /\ UNCHANGED run

\* the user removes the hook, or replaces it by a script of their own
EnvRemoveHook ==
    /\ HookPath \in DOMAIN files
    /\ files' = NoFiles
    /\ fs' = fs \ {HookPath}
    /\ UNCHANGED <<refs, worktrees, remotes, upstream, run, last>>

EnvWriteHook ==
    \E c \in UserHooks, x \in BOOLEAN :
        /\ HooksDir \in fs
        /\ files' = (HookPath :> [content |-> c, exec |-> x])
        /\ fs' = fs \cup {HookPath}
        /\ UNCHANGED <<refs, worktrees, remotes, upstream, run, last>>

NextHook ==
    \/ InstallHookCmd
    \/ BranchCommandCmd
    \/ EnvRemoveHook
    \/ EnvWriteHook

SpecHook == InitHook /\ [][NextHook]_vars

HookText(g) == IF HookPath \in DOMAIN g.files THEN g.files[HookPath].content ELSE <<>>

\* C15: a call of installPruneHook made when the hook already contains the
\* prune invocation returns false and writes nothing; after every completed
\* call the hook contains the invocation exactly once.
C15_InstallIsIdempotent ==
    last.op = "installPruneHook"
    => /\ Includes(HookText(last.pre), TwigPrune)
          => /\ last.err = "none"
             /\ last.ret = FALSE
             /\ CallsOf(last.calls, {"write", "chmod"}) = <<>>
             /\ last.post.files = last.pre.files
       /\ last.err = "none" => Occurrences(HookText(last.post), TwigPrune) = 1

\* C16: when a hook exists without the prune invocation, after every outcome
\* of installPruneHook the previous content is still in the file, and on
\* success the file is the previous content followed by the prune block; a file
\* is created from the prune block alone, and marked executable, only when no
\* hook existed.
C16_ExistingHookPreserved ==
    last.op = "installPruneHook"
    => /\ (HookPath \in DOMAIN last.pre.files
           /\ ~Includes(HookText(last.pre), TwigPrune))
          => /\ HookPath \in DOMAIN last.post.files
             /\ StartsWith(HookText(last.post), HookText(last.pre))
             /\ last.err = "none"
                => HookText(last.post) = HookText(last.pre) \o <<"\n">> \o hookContent
       /\ (HookPath \in DOMAIN last.post.files /\ HookText(last.post) = hookContent
           /\ last.post.files # last.pre.files)
          => HookPath \notin DOMAIN last.pre.files
       /\ (HookPath \notin DOMAIN last.pre.files /\ last.err = "none")
          => last.post.files[HookPath] = [content |-> hookContent, exec |-> TRUE]

\* C17: a branch command that ends in an error has not created or modified
\* the post-checkout hook.
C17_FailedBranchLeavesHook ==
    (last.op = "branchCommand" /\ last.err # "none")
    => last.post.files = last.pre.files

(***************************************************************************)
(* deleteWorktree, with prune, on a repository with one or two linked      *)
(* worktrees.                                                              *)
(***************************************************************************)
\* git branch -D <b>: refused while a worktree has the branch checked out;
\* ok = FALSE is a failure of the tool for a reason outside the model
GitBranchDeleteOk(g, b, ok) ==
    /\ ok
    /\ branchExists(g, b)
    /\ \A i \in 1..Len(g.wts) : g.wts[i].branch # b

GitBranchDelete(g, b) ==
    [g EXCEPT !.refs = [r \in DOMAIN @ \ {RefsHeads \o b} |-> @[r]]]

\* variant: a token that resolves to nothing is taken as a path
deleteWorktreeUnresolvedAsPath(g, target, opts, o) ==
    LET res == resolveWorktreePath(g, target)
        dir == IF res.ret = Null THEN PathResolve(target) ELSE res.ret
        items == parseWorktrees(g)
        hits == {i \in 1..Len(items) : items[i].path = dir}
        found == hits # {}
        it == items[CHOOSE i \in hits : \A j \in hits : i <= j]
        c1 == Append(res.calls, Call("worktree-list", <<>>, <<>>))
        proceed == opts.yes \/ o.answer
        c2 == IF opts.yes THEN c1 ELSE Append(c1, Call("confirm", dir, <<>>))
        c3 == Append(c2, [Call("worktree-remove", dir, <<>>) EXCEPT !.s = <<"f">>])
        removed == GitWorktreeRemoveOk(g, dir, o.removeOk)
        g1 == GitWorktreeRemove(g, dir)
        wanted == ~opts.keepBranch /\ found /\ Truthy(it.branch)
        c4 == Append(c3, Call("show-ref", RefsHeads \o it.branch, <<>>))
        c5 == Append(c4, [Call("branch-delete", it.branch, <<>>) EXCEPT !.s = <<"f">>])
        logged(c) == Append(c, Call("log-removed", dir, <<>>))
    IN  IF ~proceed THEN Result(Null, "aborted", c2, g)
        ELSE IF ~removed THEN Result(Null, "remove-failed", c3, g)
        ELSE IF ~wanted THEN Result(Null, "none", logged(c3), g1)
        ELSE IF ~execGitShowRef(g1, RefsHeads \o it.branch)
             THEN Result(Null, "none", logged(c4), g1)
        ELSE IF ~GitBranchDeleteOk(g1, it.branch, o.deleteOk)
             THEN Result(Null, "branch-delete-failed", c5, g1)
        ELSE Result(Null, "none", logged(c5), GitBranchDelete(g1, it.branch))

\* variant: the branch is deleted without looking whether it still exists
deleteWorktreeNoRecheck(g, target, opts, o) ==
    LET res == resolveWorktreePath(g, target)
        dir == res.ret
        items == parseWorktrees(g)
        hits == {i \in 1..Len(items) : items[i].path = dir}
        found == hits # {}
        it == items[CHOOSE i \in hits : \A j \in hits : i <= j]
        c1 == Append(res.calls, Call("worktree-list", <<>>, <<>>))
        proceed == opts.yes \/ o.answer
        c2 == IF opts.yes THEN c1 ELSE Append(c1, Call("confirm", dir, <<>>))
        c3 == Append(c2, [Call("worktree-remove", dir, <<>>) EXCEPT !.s = <<"f">>])
        removed == GitWorktreeRemoveOk(g, dir, o.removeOk)
        g1 == GitWorktreeRemove(g, dir)
        wanted == ~opts.keepBranch /\ found /\ Truthy(it.branch)
        c4 == Append(c3, Call("show-ref", RefsHeads \o it.branch, <<>>))
        c5 == Append(c4, [Call("branch-delete", it.branch, <<>>) EXCEPT !.s = <<"f">>])
        logged(c) == Append(c, Call("log-removed", dir, <<>>))
    IN  IF dir = Null THEN Result(Null, "not-found", res.calls, g)
        ELSE IF ~proceed THEN Result(Null, "aborted", c2, g)
        ELSE IF ~removed THEN Result(Null, "remove-failed", c3, g)
        ELSE IF ~wanted THEN Result(Null, "none", logged(c3), g1)
        ELSE IF ~GitBranchDeleteOk(g1, it.branch, o.deleteOk)
             THEN Result(Null, "branch-delete-failed", c5, g1)
        ELSE Result(Null, "none", logged(c5), GitBranchDelete(g1, it.branch))

\* variant: the confirmation is asked after the worktree has been removed
deleteWorktreeAsksAfterRemoval(g, target, opts, o) ==
    LET res == resolveWorktreePath(g, target)
        dir == res.ret
        items == parseWorktrees(g)
        hits == {i \in 1..Len(items) : items[i].path = dir}
        found == hits # {}
        it == items[CHOOSE i \in hits : \A j \in hits : i <= j]
        c1 == Append(res.calls, Call("worktree-list", <<>>, <<>>))
        proceed == opts.yes \/ o.answer
        c3 == Append(c1, [Call("worktree-remove", dir, <<>>) EXCEPT !.s = <<"f">>])
        c2 == IF opts.yes THEN c3 ELSE Append(c3, Call("confirm", dir, <<>>))
        removed == GitWorktreeRemoveOk(g, dir, o.removeOk)
        g1 == GitWorktreeRemove(g, dir)
        wanted == ~opts.keepBranch /\ found /\ Truthy(it.branch)
        c4 == Append(c3, Call("show-ref", RefsHeads \o it.branch, <<>>))
        c5 == Append(c4, [Call("branch-delete", it.branch, <<>>) EXCEPT !.s = <<"f">>])
        logged(c) == Append(c, Call("log-removed", dir, <<>>))
    IN  IF dir = Null THEN Result(Null, "not-found", res.calls, g)
        ELSE IF ~removed THEN Result(Null, "remove-failed", c3, g)
        ELSE IF ~proceed THEN Result(Null, "aborted", c2, g1)
        ELSE IF ~wanted THEN Result(Null, "none", logged(c3), g1)
        ELSE IF ~execGitShowRef(g1, RefsHeads \o it.branch)
             THEN Result(Null, "none", logged(c4), g1)
        ELSE IF ~GitBranchDeleteOk(g1, it.branch, o.deleteOk)
             THEN Result(Null, "branch-delete-failed", c5, g1)
        ELSE Result(Null, "none", logged(c5), GitBranchDelete(g1, it.branch))

\* o.answer: the answer to the confirmation; o.removeOk, o.deleteOk: whether
\* the worktree removal and the branch deletion succeed
deleteWorktree(g, target, opts, o) ==
    LET res == resolveWorktreePath(g, target)
        dir == res.ret
        items == parseWorktrees(g)
        hits == {i \in 1..Len(items) : items[i].path = dir}
        found == hits # {}
        it == items[CHOOSE i \in hits : \A j \in hits : i <= j]
        c1 == Append(res.calls, Call("worktree-list", <<>>, <<>>))
        proceed == opts.yes \/ o.answer
        c2 == IF opts.yes THEN c1 ELSE Append(c1, Call("confirm", dir, <<>>))
        c3 == Append(c2, [Call("worktree-remove", dir, <<>>) EXCEPT !.s = <<"f">>])
        removed == GitWorktreeRemoveOk(g, dir, o.removeOk)
        g1 == GitWorktreeRemove(g, dir)
        wanted == ~opts.keepBranch /\ found /\ Truthy(it.branch)
        c4 == Append(c3, Call("show-ref", RefsHeads \o it.branch, <<>>))
        c5 == Append(c4, [Call("branch-delete", it.branch, <<>>) EXCEPT !.s = <<"f">>])
        logged(c) == Append(c, Call("log-removed", dir, <<>>))
    IN  IF dir = Null THEN Result(Null, "not-found", res.calls, g)
        ELSE IF ~proceed THEN Result(Null, "aborted", c2, g)
        ELSE IF ~removed THEN Result(Null, "remove-failed", c3, g)
        ELSE IF ~wanted THEN Result(Null, "none", logged(c3), g1)
        ELSE IF ~execGitShowRef(g1, RefsHeads \o it.branch)
             THEN Result(Null, "none", logged(c4), g1)
        ELSE IF ~GitBranchDeleteOk(g1, it.branch, o.deleteOk)
             THEN Result(Null, "branch-delete-failed", c5, g1)
        ELSE Result(Null, "none", logged(c5), GitBranchDelete(g1, it.branch))

\* the exit status of the process: 1 when the command throws
ExitCode(err) == IF err = "none" THEN 0 ELSE 1

\* the kinds of linked worktree: on a live branch, on a deleted branch, detached
Kinds == {"live", "orphan", "detached"}

LinkedRecord(i, kind) ==
    [path |-> LinkedPath(i),
     branch |-> IF kind = "detached" THEN Null ELSE LinkedBranch(i),
     head |-> Sha1]

\* a first linked worktree of any kind, with or without a second one on a
\* live or a deleted branch
InitDelete ==
    \E k1 \in Kinds, k2 \in {"live", "orphan", "none"} :
        /\ refs = RefMap({RefsHeads \o Main}
                         \cup (IF k1 \in {"live", "detached"}
                               THEN {RefsHeads \o LinkedBranch(1)} ELSE {})
                         \cup (IF k2 \in {"live", "detached"}
                               THEN {RefsHeads \o LinkedBranch(2)} ELSE {}),
                         Sha1)
        /\ worktrees = <<[path |-> Root, branch |-> Main, head |-> Sha1],
                         LinkedRecord(1, k1)>>
                       \o (IF k2 = "none" THEN <<>> ELSE <<LinkedRecord(2, k2)>>)
        /\ fs = Ancestors(Root) \cup Ancestors(LinkedPath(1))
                \cup (IF k2 = "none" THEN {} ELSE Ancestors(LinkedPath(2)))
        /\ remotes = {Origin}
        /\ upstream = (Main :> Sha1)
        /\ files = NoFiles
        /\ run = Idle
        /\ last = NoCommand

\* a branch token, a path token, a token naming nothing, the main branch
DeleteTokens == {LinkedBranch(1), LinkedPath(2), D, Main}

\* yes set or not, the answer given, and which call fails
DeleteRuns ==
    {[yes |-> y, fault |-> f] : y \in BOOLEAN, f \in {"none", "remove", "delete"}}
        \cup {[yes |-> FALSE, fault |-> "decline"]}

DeleteCmd ==
    \E target \in DeleteTokens, keepBranch \in BOOLEAN, d \in DeleteRuns :
        LET opts == [keepBranch |-> keepBranch, yes |-> d.yes]
        IN  \E r \in {deleteWorktree(G, target, opts,
                                      [answer |-> d.fault # "decline",
                                       removeOk |-> d.fault # "remove",
                                       deleteOk |-> d.fault # "delete"])} :
                /\ run.pc = "idle"
                /\ SetG(r.g)
                /\ last' = Done("deleteWorktree", target, opts, d.fault, r, G)
                /\ run' = Idle

NextDelete ==
    \/ DeleteCmd
    \/ PruneStart
    \/ PruneConfirm
    \/ PruneRemove

SpecDelete == InitDelete /\ [][NextDelete]_vars

DestructiveTags == {"worktree-remove", "branch-delete"}

\* C18: deleteWorktree with a token that names no existing filesystem entry
\* and no inventory record's branch fails with the not-found error and touches
\* nothing: no confirmation, no worktree removal, no branch deletion.
C18_UnresolvedTokenTouchesNothing ==
    (last.op = "deleteWorktree" /\ ~FsHit(last.pre, last.target)
     /\ Carriers(last.pre, last.target) = {})
    => /\ last.err = "not-found"
       /\ CallsOf(last.calls, DestructiveTags \cup {"confirm"}) = <<>>
       /\ last.post = last.pre

\* the branch of a worktree removed earlier no longer resolves
C18_Witness ==
    /\ last.op = "deleteWorktree"
    /\ last.target = LinkedBranch(1)
    /\ last.err = "not-found"
    /\ last.opts.yes

\* C19: deleteWorktree issues a branch deletion only when keepBranch is not
\* set, the forced worktree removal was issued before and succeeded, the
\* inventory record of the removed directory carries that branch, and the
\* show-ref issued after the removal found refs/heads/<branch>; with keepBranch
\* set or a failed removal no branch deletion is issued and no ref changes.
C19_BranchDeletedOnlyAfterRemoval ==
    last.op = "deleteWorktree"
    => LET dels == CallsOf(last.calls, {"branch-delete"})
           n == Len(last.calls)
           at == CHOOSE i \in 1..n : last.calls[i].c = "branch-delete"
       IN  /\ Len(dels) <= 1
           /\ Len(dels) = 1
              => /\ ~last.opts.keepBranch
                 /\ at >= 3
                 /\ last.calls[at - 2].c = "worktree-remove"
                 /\ last.calls[at - 2].s = <<"f">>
                 /\ \E i \in 1..Len(last.pre.wts) :
                        /\ last.pre.wts[i].path = last.calls[at - 2].a
                        /\ last.pre.wts[i].branch = dels[1].a
                        /\ Truthy(dels[1].a)
                 /\ \A i \in 1..Len(last.post.wts) :
                        last.post.wts[i].path # last.calls[at - 2].a
                 /\ last.calls[at - 1] = Call("show-ref", RefsHeads \o dels[1].a, <<>>)
                 /\ HasBranch(last.pre, dels[1].a)
           /\ (last.opts.keepBranch \/ last.err = "remove-failed")
              => /\ dels = <<>>
                 /\ last.post.refs = last.pre.refs
           /\ last.err = "remove-failed" => last.post = last.pre

C19_Witness ==
    /\ last.op = "deleteWorktree"
    /\ last.target = LinkedPath(2)
    /\ last.err = "none"
    /\ Len(CallsOf(last.calls, {"branch-delete"})) = 1
    /\ HasBranch(last.pre, LinkedBranch(2))
    /\ ~HasBranch(last.post, LinkedBranch(2))

BeforeGuards == {"invalid-name", "no-default-branch", "no-origin", "fetch-failed",
                 "base-missing"}

\* the destination directory of the last creation
DestDir == IF last.opts.dir = Null THEN defaultDir(last.pre, last.target) ELSE last.opts.dir

C25_ReturnsNumberPruned ==
    (last.op = "prune" /\ last.err = "none")
    => /\ last.count = Len(CallsOf(last.calls, {"log-removed"}))
       /\ last.count = Len(last.pre.wts) - Len(last.post.wts)

\* C26: the record of the main worktree, the first of the inventory, is never
\* among the orphans that findOrphanedWorktrees reports, and prune issues no
\* forced removal for the main worktree's path.
C26_MainWorktreeNeverOrphan ==
    last.op \in {"findOrphanedWorktrees", "prune"}
    => /\ \A i \in 1..Len(last.orphaned) : last.orphaned[i].path # last.pre.wts[1].path
       /\ \A k \in 1..Len(last.calls) :
            last.calls[k].c = "worktree-remove" => last.calls[k].a # last.pre.wts[1].path

\* C30: every step that takes a record out of the inventory does so while the
\* record's branch does not exist: prune removes no worktree whose branch has
\* been created again since orphan detection.
C30_RemovedOnlyWhileBranchAbsent ==
    [][\A i \in 1..Len(worktrees) :
          (\A j \in 1..Len(worktrees') : worktrees'[j] # worktrees[i])
          => ~branchExists(G, worktrees[i].branch)]_vars

(***************************************************************************)
(* deleteWorktree for the ways a token can name one linked worktree: its   *)
(* branch, its absolute path, a relative path, a path with a trailing      *)
(* slash, and a symbolic link to its directory.                            *)
(***************************************************************************)
PathTokens ==
    { LinkedBranch(2), LinkedPath(2), <<".", ".", "/", "r", "-", "b", "2">>,
      LinkedPath(2) \o <<"/">>, LinkName }

InitDeletePaths ==
    \E k \in Kinds, link \in BOOLEAN :
        /\ refs = RefMap({RefsHeads \o Main}
                         \cup (IF k # "orphan" THEN {RefsHeads \o LinkedBranch(2)} ELSE {}),
                         Sha1)
        /\ worktrees = <<[path |-> Root, branch |-> Main, head |-> Sha1], LinkedRecord(2, k)>>
        /\ fs = Ancestors(Root) \cup Ancestors(LinkedPath(2))
                \cup (IF link THEN {LinkName} ELSE {})
        /\ remotes = {Origin}
        /\ upstream = (Main :> Sha1)
        /\ files = NoFiles
        /\ run = Idle
        /\ last = NoCommand

DeletePathCmd ==
    \E target \in PathTokens, keepBranch \in BOOLEAN, d \in DeleteRuns :
        LET opts == [keepBranch |-> keepBranch, yes |-> d.yes]
        IN  \E r \in {deleteWorktree(G, target, opts,
                                      [answer |-> d.fault # "decline",
                                       removeOk |-> d.fault # "remove",
                                       deleteOk |-> d.fault # "delete"])} :
                /\ run.pc = "idle"
                /\ SetG(r.g)
                /\ last' = Done("deleteWorktree", target, opts, d.fault, r, G)
                /\ run' = Idle

NextDeletePaths == DeletePathCmd

SpecDeletePaths == InitDeletePaths /\ [][NextDeletePaths]_vars

\* the inventory records that the last command removed
RemovedRecords ==
    {i \in 1..Len(last.pre.wts) :
        \A j \in 1..Len(last.post.wts) : last.post.wts[j] # last.pre.wts[i]}

\* C29: whenever deleteWorktree without keepBranch completes (it then reports
\* "Removed worktree and branch.") having removed a worktree checked out on
\* branch B, branch B does not exist afterwards, whichever token named the
\* worktree.
C29_BranchGoneAfterDelete ==
    (/\ last.op = "deleteWorktree"
     /\ ~last.opts.keepBranch
     /\ last.err = "none")
    => \A i \in RemovedRecords :
         Truthy(last.pre.wts[i].branch) => ~branchExists(last.post, last.pre.wts[i].branch)

(***************************************************************************)
(* Untracked-file propagation.  createWorktree copies file by file (its    *)
(* own copyUntrackedFiles), createWorktreeForExistingBranch uses the       *)
(* version that copies a top-level directory in bulk once it holds         *)
(* DIRECTORY_COPY_THRESHOLD untracked files.  The creation operators above *)
(* record the step as "copy-untracked"; what the step does to the          *)
(* filesystem is computed here and joined to their result by thenCopy.     *)
(***************************************************************************)
DIRECTORY_COPY_THRESHOLD == 10

Untracked == [content |-> <<"u">>, exec |-> FALSE]

\* the relative paths of the model's working files, in the order git lists them
ListingOrder ==
    <<FileF, FileK>> \o [i \in 1..DIRECTORY_COPY_THRESHOLD |-> CacheFile(i)]

\* stdout of `git ls-files --others` run in a worktree, as its lines: the
\* files below the directory that the checked-out commit does not track
execGitLsFilesOthers(g, sourceDir) ==
    LET i == CHOOSE k \in 1..Len(g.wts) : g.wts[k].path = PathResolve(sourceDir)
        index == Tree(g.wts[i].head)
    IN  SelectSeq(ListingOrder,
                  LAMBDA rel : /\ PathResolve2(PathResolve(sourceDir), rel) \in DOMAIN g.files
                               /\ rel \notin DOMAIN index)

HasSep(file) == \E k \in 1..Len(file) : file[k] = "/"

\* file.split(path.sep)[0]
TopLevelDir(file) ==
    LET k == CHOOSE i \in 1..Len(file) : file[i] = "/" /\ \A j \in 1..(i - 1) : file[j] # "/"
    IN  SubSeq(file, 1, k - 1)

\* the keys of directoryMap, in insertion order
RECURSIVE DirectoryKeys(_, _)
DirectoryKeys(fl, acc) ==
    IF fl = <<>> THEN acc
    ELSE IF HasSep(Head(fl)) /\ \A i \in 1..Len(acc) : acc[i] # TopLevelDir(Head(fl))
         THEN DirectoryKeys(Tail(fl), Append(acc, TopLevelDir(Head(fl))))
         ELSE DirectoryKeys(Tail(fl), acc)

FilesInDir(fl, d) == SelectSeq(fl, LAMBDA f : HasSep(f) /\ TopLevelDir(f) = d)

RECURSIVE FilesOfDirs(_, _)
FilesOfDirs(fl, dirs) ==
    IF dirs = <<>> THEN <<>>
    ELSE FilesInDir(fl, Head(dirs)) \o FilesOfDirs(fl, Tail(dirs))

groupFilesByDirectory(fl) ==
    LET keys == DirectoryKeys(fl, <<>>)
        big(d) == Len(FilesInDir(fl, d)) >= DIRECTORY_COPY_THRESHOLD
    IN  [directoriesToCopy |-> SelectSeq(keys, big),
         individualFiles |-> SelectSeq(fl, LAMBDA f : ~HasSep(f))
                             \o FilesOfDirs(fl, SelectSeq(keys, LAMBDA d : ~big(d)))]

\* o.file: relative path -> "mkdir" or "copy", the call that fails for that file
FaultOf(o, file) == IF file \in DOMAIN o.file THEN o.file[file] ELSE "none"

\* variant: the first file that fails to copy ends the loop and the creation
RECURSIVE CopyFilesLoopStopsOnFailure(_, _, _, _, _, _)
CopyFilesLoopStopsOnFailure(g, sourceDir, destDir, fl, o, calls) ==
    IF fl = <<>> THEN Result(Null, "none", calls, g)
    ELSE LET file == Head(fl)
             srcPath == PathResolve2(PathResolve(sourceDir), file)
             destPath == PathResolve2(PathResolve(destDir), file)
             parent == PathDirname(destPath)
             c1 == Append(calls, Call("mkdir", parent, <<>>))
             c2 == Append(c1, Call("copyFile", srcPath, destPath))
         IN  IF FaultOf(o, file) = "mkdir"
             THEN Result(Null, "copy-failed", c1, g)
             ELSE IF FaultOf(o, file) = "copy" \/ srcPath \notin DOMAIN g.files
                  THEN Result(Null, "copy-failed", c2,
                              [g EXCEPT !.fs = @ \cup Ancestors(parent)])
             ELSE CopyFilesLoopStopsOnFailure(
                      [g EXCEPT !.fs = @ \cup Ancestors(destPath),
                                !.files = Ext(@, destPath, @[srcPath])],
                      sourceDir, destDir, Tail(fl), o, c2)

\* the loop over individual files: mkdir of the parent, then fs.copyFile, which
\* replaces an existing destination; a failure skips to the next file
RECURSIVE CopyFilesLoop(_, _, _, _, _, _)
CopyFilesLoop(g, sourceDir, destDir, fl, o, calls) ==
    IF fl = <<>> THEN Result(Null, "none", calls, g)
    ELSE LET file == Head(fl)
             srcPath == PathResolve2(PathResolve(sourceDir), file)
             destPath == PathResolve2(PathResolve(destDir), file)
             parent == PathDirname(destPath)
             c1 == Append(calls, Call("mkdir", parent, <<>>))
             c2 == Append(c1, Call("copyFile", srcPath, destPath))
         IN  IF FaultOf(o, file) = "mkdir"
             THEN CopyFilesLoop(g, sourceDir, destDir, Tail(fl), o, c1)
             ELSE IF FaultOf(o, file) = "copy" \/ srcPath \notin DOMAIN g.files
                  THEN CopyFilesLoop([g EXCEPT !.fs = @ \cup Ancestors(parent)],
                                     sourceDir, destDir, Tail(fl), o, c2)
             ELSE CopyFilesLoop([g EXCEPT !.fs = @ \cup Ancestors(destPath),
                                          !.files = Ext(@, destPath, @[srcPath])],
                                sourceDir, destDir, Tail(fl), o, c2)

\* fs.cp(src, dest, {recursive: true, force: false}): every file below src is
\* copied unless the destination has it already
FsCp(g, srcPath, destPath) ==
    LET below == {p \in DOMAIN g.files : StartsWith(p, srcPath \o <<"/">>)}
        target(p) == destPath \o Slice(p, Len(srcPath))
        fresh == {p \in below : target(p) \notin DOMAIN g.files}
    IN  [g EXCEPT !.fs = @ \cup Ancestors(destPath) \cup UNION {Ancestors(target(p)) : p \in fresh},
                  !.files = [q \in DOMAIN @ \cup {target(p) : p \in fresh} |->
                                IF q \in DOMAIN @ THEN @[q]
                                ELSE @[CHOOSE p \in fresh : target(p) = q]]]

\* the bulk copies; they run concurrently on disjoint destinations, so their
\* order does not matter; o.cpOk = FALSE is a copy that fails
RECURSIVE CopyDirsLoop(_, _, _, _, _, _)
CopyDirsLoop(g, sourceDir, destDir, dirs, o, calls) ==
    IF dirs = <<>> THEN Result(Null, "none", calls, g)
    ELSE LET srcPath == PathResolve2(PathResolve(sourceDir), Head(dirs))
             destPath == PathResolve2(PathResolve(destDir), Head(dirs))
             c1 == Append(calls, Call("stat", srcPath, <<>>))
             c2 == Append(c1, Call("cp", srcPath, destPath))
         IN  IF srcPath \notin g.fs
             THEN CopyDirsLoop(g, sourceDir, destDir, Tail(dirs), o, c1)
             ELSE IF ~o.cpOk
                  THEN CopyDirsLoop(g, sourceDir, destDir, Tail(dirs), o, c2)
             ELSE CopyDirsLoop(FsCp(g, srcPath, destPath), sourceDir, destDir,
                               Tail(dirs), o, c2)

UntrackedFiles(g, sourceDir) ==
    LET lines == execGitLsFilesOthers(g, sourceDir)
    IN  SelectSeq([i \in 1..Len(lines) |-> Trim(lines[i])], LAMBDA f : Len(f) > 0)

\* the file-by-file version local to createWorktree; o.listOk = FALSE is a
\* failing `git ls-files`
copyUntrackedFilesEach(g, sourceDir, destDir, o) ==
    LET c0 == <<Call("ls-files", sourceDir, <<>>)>>
        untrackedFiles == UntrackedFiles(g, sourceDir)
    IN  IF ~o.listOk THEN Result(Null, "none", Append(c0, Call("warn", <<>>, <<>>)), g)
        ELSE IF Len(untrackedFiles) = 0 THEN Result(Null, "none", c0, g)
        ELSE \* the per-file failures are swallowed inside the loop
             LET f == CopyFilesLoop(g, sourceDir, destDir, untrackedFiles, o, c0)
             IN  Result(Null, f.err, Append(f.calls, Call("log-copied", <<>>, <<>>)), f.g)

\* the version of copyUntrackedFiles.ts, with bulk copies
copyUntrackedFiles(g, sourceDir, destDir, o) ==
    LET c0 == <<Call("ls-files", sourceDir, <<>>)>>
        untrackedFiles == UntrackedFiles(g, sourceDir)
        grp == groupFilesByDirectory(untrackedFiles)
    IN  IF ~o.listOk THEN Result(Null, "none", Append(c0, Call("warn", <<>>, <<>>)), g)
        ELSE IF Len(untrackedFiles) = 0 THEN Result(Null, "none", c0, g)
        ELSE LET d == CopyDirsLoop(g, sourceDir, destDir, grp.directoriesToCopy, o, c0)
                 f == CopyFilesLoop(d.g, sourceDir, destDir, grp.individualFiles, o,
                                    d.calls)
             IN  Result(Null, f.err, Append(f.calls, Call("log-copied", <<>>, <<>>)), f.g)

\* no copy step: the creation failed before it
NoCopy(g) == Result(Null, "none", <<>>, g)

\* the creation r followed by its copy step c: `await copyUntrackedFiles(baseDir,
\* dir); return dir`
thenCopy(r, c) ==
    IF r.err # "none" THEN r
    ELSE [ret |-> IF c.err = "none" THEN r.ret ELSE Null, err |-> c.err,
          calls |-> r.calls \o c.calls, g |-> c.g]

(***************************************************************************)
(* The two creation entry points with their copy step, on a main worktree  *)
(* checked out at a commit that tracks nothing, holding untracked files,   *)
(* while origin/main and branch d are at a commit that tracks f and n/0.   *)
(***************************************************************************)
UntrackedSets ==
    { {}, {FileF}, {FileF, FileK},
      {FileF} \cup {CacheFile(i) : i \in 1..DIRECTORY_COPY_THRESHOLD} }

\* the failures of one run: of the worktree-add, of the listing, of a bulk copy,
\* of the mkdir or the copy of a file
NoFault == [addOk |-> TRUE, listOk |-> TRUE, cpOk |-> TRUE, file |-> <<>>]

CopyFaults ==
    { NoFault,
      [NoFault EXCEPT !.addOk = FALSE],
      [NoFault EXCEPT !.listOk = FALSE],
      [NoFault EXCEPT !.cpOk = FALSE],
      [NoFault EXCEPT !.file = (FileF :> "mkdir")],
      [NoFault EXCEPT !.file = (FileF :> "copy")],
      [NoFault EXCEPT !.file = (FileK :> "copy")],
      [NoFault EXCEPT !.file = (FileF :> "copy") @@ (FileK :> "mkdir")] }

InitCopy ==
    \E hasD \in BOOLEAN, ahead \in BOOLEAN, U \in UntrackedSets :
        /\ refs = RefMap({RefsHeads \o Main}, Sha1)
                  @@ RefMap({RefsRemotesOrigin \o Main}, IF ahead THEN Sha3 ELSE Sha1)
                  @@ RefMap(IF hasD THEN {RefsHeads \o D} ELSE {}, Sha3)
        /\ worktrees = <<[path |-> Root, branch |-> Main, head |-> Sha1]>>
        /\ fs = Ancestors(Root) \cup UNION {Ancestors(PathResolve2(Root, rel)) : rel \in U}
        /\ remotes = {Origin}
        /\ upstream = (Main :> IF ahead THEN Sha3 ELSE Sha1)
        /\ files = [p \in {PathResolve2(Root, rel) : rel \in U} |-> Untracked]
        /\ run = Idle
        /\ last = NoCommand

CreateAndCopyCmd ==
    \E b \in {D}, dir \in DirOpts, o \in CopyFaults :
      \E r \in {createWorktree(G, b, [base |-> Null, dir |-> dir, yes |-> FALSE],
                               [fetchOk |-> TRUE, addOk |-> o.addOk])} :
        \E c \in {IF r.err = "none"
                  THEN copyUntrackedFilesEach(r.g, repoRoot(G), r.ret, o)
                  ELSE NoCopy(r.g)} :
          \E x \in {thenCopy(r, c)} :
            /\ run.pc = "idle"
            /\ SetG(x.g)
            /\ last' = Done("createWorktree", b, [base |-> Null, dir |-> dir, yes |-> FALSE],
                            o, x, G)
            /\ UNCHANGED run

ExistingAndCopyCmd ==
    \E b \in {D}, dir \in DirOpts, o \in CopyFaults :
      \E r \in {createWorktreeForExistingBranch(G, b, [base |-> Null, dir |-> dir, yes |-> FALSE],
                                                [fetchOk |-> TRUE, addOk |-> o.addOk])} :
        \E c \in {IF r.err = "none"
                  THEN copyUntrackedFiles(r.g, repoRoot(G), r.ret, o)
                  ELSE NoCopy(r.g)} :
          \E x \in {thenCopy(r, c)} :
            /\ run.pc = "idle"
            /\ SetG(x.g)
            /\ last' = Done("createWorktreeForExistingBranch", b,
                            [base |-> Null, dir |-> dir, yes |-> FALSE], o, x, G)
            /\ UNCHANGED run

NextCopy ==
    \/ CreateAndCopyCmd
    \/ ExistingAndCopyCmd

SpecCopy == InitCopy /\ [][NextCopy]_vars

CopyTags == {"ls-files", "stat", "cp", "mkdir", "copyFile"}

\* the steps of the last command that follow its worktree-add
AfterAdd ==
    LET k == CHOOSE i \in 1..Len(last.calls) : last.calls[i].c \in AddTags
    IN  SubSeq(last.calls, k + 1, Len(last.calls))

\* the directory handed to the worktree-add of the last command
AddedDir == CallsOf(last.calls, AddTags)[1].a

\* the worktree-add of the last command succeeded: the inventory has a new record
AddSucceeded ==
    /\ CallsOf(last.calls, AddTags) # <<>>
    /\ Len(last.post.wts) = Len(last.pre.wts) + 1

\* the untracked files of the source directory that no bulk copy covers
CopiedOneByOne ==
    LET listed == UntrackedFiles(last.pre, Root)
    IN  IF last.op = "createWorktree" THEN listed
        ELSE groupFilesByDirectory(listed).individualFiles

\* C21: in both creation entry points, once the worktree-add has succeeded the
\* destination directory is returned whatever fails in the copy step (listing,
\* bulk copy, mkdir or copy of a file); unless the listing failed, every file
\* copied one by one gets its attempt (a mkdir, and a copyFile unless that
\* mkdir failed), also after a file that failed; and when the worktree-add
\* failed no step of the copy is taken.
C21_CopyIsBestEffort ==
    last.op \in CreateOps
    => /\ AddSucceeded
          => /\ last.err = "none"
             /\ last.ret = AddedDir
             /\ last.fault.listOk
                => /\ Len(CallsOf(AfterAdd, {"mkdir"})) = Len(CopiedOneByOne)
                   /\ \A i \in 1..Len(CopiedOneByOne) :
                        FaultOf(last.fault, CopiedOneByOne[i]) # "mkdir"
                        => \E j \in 1..Len(AfterAdd) :
                             /\ AfterAdd[j].c = "copyFile"
                             /\ AfterAdd[j].b
                                = PathResolve2(PathResolve(AddedDir), CopiedOneByOne[i])
       /\ ~AddSucceeded
          => /\ last.err # "none"
             /\ \A i \in 1..Len(last.calls) :
                  last.calls[i].c \in AddTags
                  => \A j \in (i + 1)..Len(last.calls) : last.calls[j].c \notin CopyTags

\* the copy of f failed and the copy of k, the next file, was still made
C21_Witness ==
    /\ last.op \in CreateOps
    /\ AddSucceeded
    /\ last.ret = AddedDir
    /\ FaultOf(last.fault, FileF) = "copy"
    /\ PathResolve2(Root, FileK) \in DOMAIN last.pre.files
    /\ PathResolve2(PathResolve(AddedDir), FileF) \notin DOMAIN last.post.files
    /\ PathResolve2(PathResolve(AddedDir), FileK) \in DOMAIN last.post.files

\* the record the last command added to the inventory
NewRecord == last.post.wts[Len(last.post.wts)]

\* C28: after createWorktree or createWorktreeForExistingBranch returns, every
\* file tracked by the commit checked out in the new worktree still has its
\* checked-out content there, also when the source directory holds an
\* untracked file at the same relative path.
C28_CheckedOutFilesKept ==
    (last.op \in CreateOps /\ last.err = "none")
    => \A rel \in DOMAIN Tree(NewRecord.head) :
         /\ PathResolve2(NewRecord.path, rel) \in DOMAIN last.post.files
         /\ last.post.files[PathResolve2(NewRecord.path, rel)] = Tree(NewRecord.head)[rel]

(***************************************************************************)
(* parseWorktreeOutput on every listing of up to MaxLines lines drawn from *)
(* worktree, HEAD, branch, detached, blank and unknown lines.              *)
(***************************************************************************)
MaxLines == 4

ListingLines ==
    { WorktreeSp \o <<"/", "a">>,
      WorktreeSp \o <<"/", "b">>,
      WorktreeSp,
      HeadSp \o Sha1,
      BranchSp \o RefsHeads \o D,
      BranchSp \o Main,
      Detached,
      <<>>,
      <<" ">> }

Listings == UNION {[1..n -> ListingLines] : n \in 0..MaxLines}

\* a listing waiting to be parsed
Pending(kind, input) == [NoCommand EXCEPT !.op = kind, !.target = input]

InitParse ==
    \E lines \in Listings :
        /\ refs = RefMap({RefsHeads \o Main}, Sha1)
        /\ worktrees = <<[path |-> Root, branch |-> Main, head |-> Sha1]>>
        /\ fs = Ancestors(Root)
        /\ remotes = {}
        /\ upstream = <<>>
        /\ files = NoFiles
        /\ run = Idle
        /\ last = Pending("listing", lines)

ParseCmd ==
    /\ last.op = "listing"
    /\ last' = Done("parseWorktreeOutput", last.target, NoOpts, "none",
                    Result(parseWorktreeOutput(last.target), "none", <<>>, G), G)
    /\ UNCHANGED <<refs, worktrees, fs, remotes, upstream, files, run>>

NextParse == ParseCmd

SpecParse == InitParse /\ [][NextParse]_vars

\* the positions of the `worktree ` lines
BlockStarts(lines) == {i \in 1..Len(lines) : StartsWith(lines[i], WorktreeSp)}

\* the position of the k-th `worktree ` line
BlockStart(lines, k) ==
    CHOOSE i \in BlockStarts(lines) : Cardinality({j \in BlockStarts(lines) : j < i}) = k - 1

\* the positions of the lines of block k that start with a prefix
BlockLines(lines, k, prefix) ==
    LET from == BlockStart(lines, k)
        to == IF k = Cardinality(BlockStarts(lines)) THEN Len(lines)
              ELSE BlockStart(lines, k + 1) - 1
    IN  {j \in (from + 1)..to : StartsWith(lines[j], prefix)}

BlockValue(lines, k, prefix) ==
    LET hits == BlockLines(lines, k, prefix)
    IN  IF hits = {} THEN Null
        ELSE Trim(Slice(lines[CHOOSE j \in hits : TRUE], Len(prefix)))

\* a listing is block-structured when every `worktree ` line names a path and
\* no block has two HEAD lines or two branch lines
ValidListing(lines) ==
    \A k \in 1..Cardinality(BlockStarts(lines)) :
        /\ Trim(Slice(lines[BlockStart(lines, k)], Len(WorktreeSp))) # <<>>
        /\ Cardinality(BlockLines(lines, k, HeadSp)) <= 1
        /\ Cardinality(BlockLines(lines, k, BranchSp)) <= 1

\* the reference parser: one record per `worktree ` line, built from its block
ReferenceParse(lines) ==
    [k \in 1..Cardinality(BlockStarts(lines)) |->
        [path |-> Trim(Slice(lines[BlockStart(lines, k)], Len(WorktreeSp))),
         branch |-> StripRefsHeads(BlockValue(lines, k, BranchSp)),
         head |-> BlockValue(lines, k, HeadSp)]]

\* C22: on every block-structured listing parseWorktreeOutput returns what the
\* reference parser returns: one record per `worktree ` line in input order,
\* each with the HEAD value and the branch value (refs/heads/ stripped) of its
\* block, no branch when the block has no branch line, whatever blank or
\* unknown lines are present; a listing without a `worktree ` line, the empty
\* one included, yields the empty sequence.
C22_ParserMatchesReference ==
    (last.op = "parseWorktreeOutput" /\ ValidListing(last.target))
    => /\ Len(last.ret) = Cardinality(BlockStarts(last.target))
       /\ \A k \in 1..Len(last.ret) : last.ret[k] = ReferenceParse(last.target)[k]
       /\ BlockStarts(last.target) = {} => last.ret = <<>>

\* two blocks with a blank line; the first has a branch, the second has none
C22_Witness ==
    /\ last.op = "parseWorktreeOutput"
    /\ last.target = << WorktreeSp \o <<"/", "a">>, BranchSp \o RefsHeads \o D, <<>>,
                        WorktreeSp \o <<"/", "b">> >>
    /\ last.ret = << [path |-> <<"/", "a">>, branch |-> D, head |-> Null],
                     [path |-> <<"/", "b">>, branch |-> Null, head |-> Null] >>

(***************************************************************************)
(* validateBranchName on every name made of up to MaxPieces pieces, and on *)
(* a plain name around each forbidden character.                           *)
(***************************************************************************)
MaxPieces == 3

NamePieces ==
    { <<"a">>, <<"1">>, <<"-">>, <<"_">>, <<"/">>, <<".">>, <<" ">>, <<"\t">>, <<"~">>,
      DotLock, <<"@", "{">>, <<"\\">> }

RECURSIVE Concat(_)
Concat(ps) == IF ps = <<>> THEN <<>> ELSE Head(ps) \o Concat(Tail(ps))

BranchNames ==
    {Concat(ps) : ps \in UNION {[1..n -> NamePieces] : n \in 0..MaxPieces}}
      \cup {<<"a", c, "1">> : c \in ForbiddenChars}

InitValidate ==
    \E name \in BranchNames :
        /\ refs = RefMap({RefsHeads \o Main}, Sha1)
        /\ worktrees = <<[path |-> Root, branch |-> Main, head |-> Sha1]>>
        /\ fs = Ancestors(Root)
        /\ remotes = {}
        /\ upstream = <<>>
        /\ files = NoFiles
        /\ run = Idle
        /\ last = Pending("name", name)

ValidateCmd ==
    /\ last.op = "name"
    /\ last' = Done("validateBranchName", last.target, NoOpts, "none",
                    Result(Null, validateBranchName(last.target), <<>>, G), G)
    /\ UNCHANGED <<refs, worktrees, fs, remotes, upstream, files, run>>

NextValidate == ValidateCmd

SpecValidate == InitValidate /\ [][NextValidate]_vars

\* the shapes the specification lists as rejected
RejectedShape(n) ==
    \/ \A i \in 1..Len(n) : n[i] \in {" ", "\t", "\n"}
    \/ n[1] = "."
    \/ \E i \in 1..(Len(n) - 1) : n[i] = "." /\ n[i + 1] = "."
    \/ \E i \in 1..Len(n) : n[i] \in {" ", "~", "^", ":", "?", "*", "[", "]"}
    \/ n[Len(n)] = "/"
    \/ (Len(n) >= 5 /\ SubSeq(n, Len(n) - 4, Len(n)) = <<".", "l", "o", "c", "k">>)
    \/ n[1] = "/"
    \/ \E i \in 1..(Len(n) - 1) : n[i] = "/" /\ n[i + 1] = "/"

\* built from letters, digits, - _ and /
PlainChars(n) == \A i \in 1..Len(n) : n[i] \in UpperCase \cup LowerCase \cup DigitChars \cup {"-", "_", "/"}

\* C27: validateBranchName rejects every name of a listed shape (empty or all
\* whitespace, leading dot, "..", a space or one of ~ ^ : ? * [ ], trailing "/"
\* or ".lock", leading "/" or "//"), and accepts every name built from letters,
\* digits, "-", "_" and "/" that has none of these shapes.
C27_ValidationRules ==
    last.op = "validateBranchName"
    => /\ RejectedShape(last.target) => last.err # "ok"
       /\ (PlainChars(last.target) /\ ~RejectedShape(last.target)) => last.err = "ok"

\* a slash-segmented name is accepted
C27_Witness ==
    /\ last.op = "validateBranchName"
    /\ last.target = <<"a", "/", "1">>
    /\ last.err = "ok"

(***************************************************************************)
(* branch, delete and prune commands, one at a time, on a repository with  *)
(* linked worktrees on live and deleted branches.                          *)
(***************************************************************************)
\* the branch command for a token that is or becomes a branch with a worktree
LifecycleBranchCmd ==
    \E target \in {D, LinkedBranch(1)}, dir \in DirOpts, fault \in {"none", "add"} :
        LET opts == [base |-> Null, dir |-> dir, yes |-> FALSE]
        IN  \E r \in {branch(G, target, opts, [fetchOk |-> TRUE, addOk |-> fault # "add"])} :
                /\ run.pc = "idle"
                /\ SetG(r.g)
                /\ last' = Done("branch", target, opts, fault, r, G)
                /\ run' = Idle

\* deleteWorktree run with --yes
LifecycleDeleteCmd ==
    \E target \in DeleteTokens, keepBranch \in BOOLEAN :
        LET opts == [keepBranch |-> keepBranch, yes |-> TRUE]
        IN  \E r \in {deleteWorktree(G, target, opts,
                                      [answer |-> TRUE, removeOk |-> TRUE, deleteOk |-> TRUE])} :
                /\ run.pc = "idle"
                /\ SetG(r.g)
                /\ last' = Done("deleteWorktree", target, opts, "none", r, G)
                /\ run' = Idle

NextLifecycle ==
    \/ LifecycleBranchCmd
    \/ LifecycleDeleteCmd
    \/ PruneStart
    \/ PruneConfirm
    \/ PruneRemove

SpecLifecycle == InitDelete /\ [][NextLifecycle]_vars

\* the inventory records that carry branch b
Attached(g, b) == {i \in 1..Len(parseWorktrees(g)) : parseWorktrees(g)[i].branch = b}

\* C23: whatever branch, delete and prune commands have run, one at a time, no
\* two inventory records carry the same branch, and a branch command has issued
\* no worktree-add for a branch that the inventory it started from shows as
\* attached to a worktree.
C23_OneWorktreePerBranch ==
    /\ \A i, j \in 1..Len(parseWorktrees(G)) :
         (i # j /\ Truthy(parseWorktrees(G)[i].branch))
         => parseWorktrees(G)[i].branch # parseWorktrees(G)[j].branch
    /\ last.op = "branch"
       => \A k \in 1..Len(last.calls) :
            last.calls[k].c \in AddTags => Attached(last.pre, last.calls[k].b) = {}

\* branch d was given a worktree by an earlier command; a branch command for d
\* with another directory then found it in the inventory and added nothing
C23_Witness ==
    /\ last.op = "branch"
    /\ last.target = D
    /\ last.opts.dir = RelX
    /\ Attached(last.pre, D) # {}
    /\ last.ret = SiblingDir(D)
    /\ CallsOf(last.calls, AddTags) = <<>>

====
